---- MODULE Spec2Model ----
(***************************************************************************)
(* Seat allocation backend: venue layout model (app/models/local.py),      *)
(* allocation document (app/models/alocacao.py), event demands             *)
(* (app/models/formatura.py) and the sequential allocation routine with    *)
(* its request handler (app/routes/planilha_routes.py).                    *)
(*                                                                         *)
(* Strings whose normalisation matters (row codes) are sequences of        *)
(* one-character strings, so that strip(), upper() and the regular         *)
(* expressions are computed, not assumed.  An optional integer (a Python   *)
(* int or None) is the empty sequence (None) or a one-element sequence.    *)
(***************************************************************************)
EXTENDS Integers, Sequences, FiniteSets, TLC

VARIABLES
    \* ---- Local (venue) held in memory: app/models/local.py
    filas,          \* Local.filas: sequence of Fila records
    opLocal,        \* the last operation called on the Local
    resLocal,       \* how that operation ended: "ok" or the error it raised
    \* ---- two calls of _gerar_alocacao_sequencial on one event
    localG,         \* formatura.local.filas of the event, a saved venue
    cursosG,        \* formatura.cursos of the event
    resultado,      \* per call: whether it returned, and what
    \* ---- an Alocacao document: app/models/alocacao.py
    alocMem,        \* Alocacao.alocacoes of the document held in memory
    alocSalva,      \* the document as last written by save(), if it was
    resAloc,        \* how the last operation on the document ended
    \* ---- the database and the /api/planilha/processar handler
    localP,         \* the rows of the venue stored in the database
    cursosDB,       \* the names of the stored (active) Curso documents
    formaturasDB,   \* the stored Formatura documents
    alocacoesDB,    \* the stored Alocacao documents
    proxId,         \* the next document id the database hands out
    deleteAceita,   \* whether delete(hard_delete=True) deletes or raises
    pedido,         \* the last request: its demanded seats, how far it got
    resposta,       \* the last response of the handler
    \* ---- a Formatura held in memory: app/models/formatura.py
    cursosF,        \* Formatura.cursos: sequence of FormaturaCurso records
    opForm,         \* the last operation called on the Formatura
    resForm,        \* how that operation ended: "ok" or the error it raised
    \* ---- one call of _gerar_alocacao_sequencial, iteration by iteration
    cursor,         \* the position in the loops and the local variables
    \* ---- what is read from an Alocacao document and its venue
    localA,         \* Alocacao.local: no venue, or the rows of the venue
    consulta,       \* the values last read from the document
    \* ---- the life cycle of a Formatura: app/models/formatura.py
    status,         \* Formatura.status
    alocacao_gerada,\* Formatura.alocacao_gerada
    opStatus,       \* the last life-cycle operation called
    \* ---- two /api/planilha/processar requests served at the same time
    req             \* per request: where it is in the handler, its locals

varsLocal == <<filas, opLocal, resLocal>>

varsGerar == <<localG, cursosG, resultado>>

varsAloc == <<alocMem, alocSalva, resAloc>>

varsDB ==
    <<localP, cursosDB, formaturasDB, alocacoesDB, proxId, deleteAceita, pedido,
      resposta>>

varsForm == <<cursosF, opForm, resForm>>

varsLaco == <<cursor>>

varsDoc == <<localA, consulta>>

varsStatus == <<status, alocacao_gerada, opStatus>>

varsReq == <<req>>

vars ==
    <<varsLocal, varsGerar, varsAloc, varsDB, varsForm, varsLaco, varsDoc,
      varsStatus, varsReq>>

----------------------------------------------------------------------------
(* Optional integers: None or an int.                                      *)

Nenhum == <<>>

Algum(n) == <<n>>

\* Python truthiness of an optional int: None and 0 are falsy.
Falsy(o) == o = Nenhum \/ o = Algum(0)

----------------------------------------------------------------------------
(* Characters and strings.                                                 *)

Minusculas ==
    <<"a","b","c","d","e","f","g","h","i","j","k","l","m",
      "n","o","p","q","r","s","t","u","v","w","x","y","z">>

Maiusculas ==
    <<"A","B","C","D","E","F","G","H","I","J","K","L","M",
      "N","O","P","Q","R","S","T","U","V","W","X","Y","Z">>

Digitos == <<"0","1","2","3","4","5","6","7","8","9">>

Espacos == {" ", "\t", "\n"}

\* the characters matched by [0-9] and by [A-Z]
ConjDigitos == {Digitos[i] : i \in 1..Len(Digitos)}

ConjMaiusculas == {Maiusculas[i] : i \in 1..Len(Maiusculas)}

EhDigito(c) == c \in ConjDigitos

EhMaiuscula(c) == c \in ConjMaiusculas

\* the upper-case letter of each lower-case letter
ParaMaiuscula ==
    [c \in {Minusculas[i] : i \in 1..Len(Minusculas)} |->
        Maiusculas[CHOOSE i \in 1..Len(Minusculas) : Minusculas[i] = c]]

\* str.upper() on one character
UpperChar(c) == IF c \in DOMAIN ParaMaiuscula THEN ParaMaiuscula[c] ELSE c

\* str.upper()
Upper(s) == [i \in 1..Len(s) |-> UpperChar(s[i])]

\* str.strip(): drops leading and trailing whitespace
Strip(s) ==
    LET naoEsp == {i \in 1..Len(s) : s[i] \notin Espacos}
    IN  IF naoEsp = {} THEN <<>>
        ELSE LET lo == CHOOSE i \in naoEsp : \A j \in naoEsp : i <= j
                 hi == CHOOSE i \in naoEsp : \A j \in naoEsp : j <= i
             IN  SubSeq(s, lo, hi)

\* re.match(r'^[0-9]+[A-Z]$', s)
CasaPadraoFila(s) ==
    /\ Len(s) >= 2
    /\ \A i \in 1..(Len(s) - 1) : EhDigito(s[i])
    /\ EhMaiuscula(s[Len(s)])

\* value of one decimal digit
ValorDigito(c) == (CHOOSE i \in 1..Len(Digitos) : Digitos[i] = c) - 1

\* int(s) for a string of decimal digits
RECURSIVE ParseInt(_)
ParseInt(s) ==
    IF s = <<>> THEN 0
    ELSE 10 * ParseInt(SubSeq(s, 1, Len(s) - 1)) + ValorDigito(s[Len(s)])

\* ord(c) - ord('A') + 1 for an upper-case letter
LetraIndex(c) == CHOOSE i \in 1..Len(Maiusculas) : Maiusculas[i] = c

----------------------------------------------------------------------------
(* Fila: one row of a venue.                                               *)

\* IntField(min_value=1, max_value=100) of Fila.quantidade_assentos
CapMin == 1

CapMax == 100

\* the fallback of _calcular_ordem for a name that does not match
OrdemPadrao == 999

\* the key computed as numero * 26 + letter index, the - 1 left out
CalcularOrdemSemMenosUm(nome) ==
    IF CasaPadraoFila(nome)
    THEN ParseInt(SubSeq(nome, 1, Len(nome) - 1)) * 26
            + LetraIndex(nome[Len(nome)])
    ELSE OrdemPadrao

\* Fila._calcular_ordem
CalcularOrdem(nome) ==
    IF CasaPadraoFila(nome)
    THEN (ParseInt(SubSeq(nome, 1, Len(nome) - 1)) - 1) * 26
            + LetraIndex(nome[Len(nome)])
    ELSE OrdemPadrao

\* the sort key of Local.save and Local.filas_ordenadas:
\* f.ordem or f._calcular_ordem()
ChaveOrdem(f) ==
    IF Falsy(f.ordem) THEN CalcularOrdem(f.nome) ELSE f.ordem[1]

\* Fila.clean, first half: the name as normalised (strip + upper) when truthy
NomeNormalizado(nome) == IF nome # <<>> THEN Upper(Strip(nome)) ELSE nome

\* Fila.clean: the errors it collects for a row (after normalising the name)
ErrosFila(f) ==
    LET nome == NomeNormalizado(f.nome)
    IN  (IF nome # <<>> /\ ~CasaPadraoFila(nome) THEN {"nome"} ELSE {})
        \cup
        (IF f.quantidade_assentos # 0
              /\ (f.quantidade_assentos < CapMin \/ f.quantidade_assentos > CapMax)
         THEN {"quantidade_assentos"} ELSE {})

\* Fila.clean: the row as clean() leaves it.  The name is normalised before
\* the errors are raised; the order is computed only when no error is raised.
FilaClean(f) ==
    LET nome == NomeNormalizado(f.nome)
        g    == [f EXCEPT !.nome = nome]
    IN  IF ErrosFila(f) # {} THEN g
        ELSE IF Falsy(g.ordem) /\ nome # <<>>
             THEN [g EXCEPT !.ordem = Algum(CalcularOrdem(nome))]
             ELSE g

----------------------------------------------------------------------------
(* Local: the venue and its row operations.                                *)

\* some row of the list has this name, compared as fila.nome.upper() == nome.upper()
ExisteFila(fs, nome) == \E i \in 1..Len(fs) : Upper(fs[i].nome) = Upper(nome)

\* Local.adicionar_fila: the row list and the outcome of the call
AdicionarFila(fs, nome, qtd, ordem) ==
    LET nova == [nome |-> nome, quantidade_assentos |-> qtd, ordem |-> ordem]
    IN  IF ExisteFila(fs, nome)
        THEN [filas |-> fs, res |-> "FilaDuplicada"]
        ELSE IF ErrosFila(nova) # {}
             THEN [filas |-> fs, res |-> "FilaInvalida"]
             ELSE [filas |-> Append(fs, FilaClean(nova)), res |-> "ok"]

\* Local.remover_fila
RemoverFila(fs, nome) ==
    [filas |-> SelectSeq(fs, LAMBDA f : Upper(f.nome) # Upper(nome)), res |-> "ok"]

\* Local.atualizar_fila: the first matching row gets the supplied fields and is
\* then cleaned, in place: the fields are assigned before clean() can raise
AtualizarFila(fs, nome, qtdOpt, ordemOpt) ==
    IF ~ExisteFila(fs, nome)
    THEN [filas |-> fs, res |-> "FilaNaoEncontrada"]
    ELSE LET i  == CHOOSE k \in 1..Len(fs) :
                      /\ Upper(fs[k].nome) = Upper(nome)
                      /\ \A j \in 1..(k - 1) : Upper(fs[j].nome) # Upper(nome)
             f1 == IF qtdOpt # Nenhum
                   THEN [fs[i] EXCEPT !.quantidade_assentos = qtdOpt[1]]
                   ELSE fs[i]
             f2 == IF ordemOpt # Nenhum THEN [f1 EXCEPT !.ordem = ordemOpt] ELSE f1
         IN  [filas |-> [fs EXCEPT ![i] = FilaClean(f2)],
              res   |-> IF ErrosFila(f2) # {} THEN "FilaInvalida" ELSE "ok"]

\* insertion that puts a row before the rows of equal key: a sort that is
\* not stable
RECURSIVE InserirAntesDosIguais(_, _)
InserirAntesDosIguais(fs, f) ==
    IF fs = <<>> THEN <<f>>
    ELSE IF ChaveOrdem(fs[Len(fs)]) < ChaveOrdem(f)
         THEN Append(fs, f)
         ELSE Append(InserirAntesDosIguais(SubSeq(fs, 1, Len(fs) - 1), f), fs[Len(fs)])

\* list.sort / sorted with a key: stable insertion of one row into a sorted list
RECURSIVE InserirOrdenado(_, _)
InserirOrdenado(fs, f) ==
    IF fs = <<>> THEN <<f>>
    ELSE IF ChaveOrdem(fs[Len(fs)]) <= ChaveOrdem(f)
         THEN Append(fs, f)
         ELSE Append(InserirOrdenado(SubSeq(fs, 1, Len(fs) - 1), f), fs[Len(fs)])

\* sorted(filas, key=lambda f: f.ordem or f._calcular_ordem()): a stable sort
RECURSIVE OrdenarEstavel(_)
OrdenarEstavel(fs) ==
    IF fs = <<>> THEN <<>>
    ELSE InserirOrdenado(OrdenarEstavel(SubSeq(fs, 1, Len(fs) - 1)), fs[Len(fs)])

\* Local.filas_ordenadas
FilasOrdenadas(fs) == OrdenarEstavel(fs)

\* Local.total_assentos
RECURSIVE TotalAssentos(_)
TotalAssentos(fs) ==
    IF fs = <<>> THEN 0
    ELSE fs[1].quantidade_assentos + TotalAssentos(Tail(fs))

----------------------------------------------------------------------------
(* FormaturaCurso: one demand of an event.                                 *)

\* FormaturaCurso.qtd_assentos: one seat for the graduate, one for a companion
QtdAssentos(c) == c.qtd_formandos * 2

\* Formatura.total_assentos_necessarios
RECURSIVE TotalAssentosNecessarios(_)
TotalAssentosNecessarios(cs) ==
    IF cs = <<>> THEN 0
    ELSE QtdAssentos(cs[1]) + TotalAssentosNecessarios(Tail(cs))

\* Formatura.capacidade_suficiente, for an event that has a venue
CapacidadeSuficiente(fs, cs) == TotalAssentos(fs) >= TotalAssentosNecessarios(cs)

----------------------------------------------------------------------------
(* AlocacaoFila and Alocacao: seat blocks and the allocation document.     *)

\* list(range(a, b))
Range(a, b) == [i \in 1..(IF b > a THEN b - a ELSE 0) |-> a + i - 1]

\* the elements of a list, as set(list)
Elementos(q) == {q[i] : i \in 1..Len(q)}

\* sorted(list(S)) for a set of integers
RECURSIVE Ordenado(_)
Ordenado(S) ==
    IF S = {} THEN <<>>
    ELSE LET m == CHOOSE x \in S : \A y \in S : x <= y
         IN  <<m>> \o Ordenado(S \ {m})

\* a clean that leaves the seat list as it was given
AlocacaoFilaCleanSemOrdenar(b) == b

\* AlocacaoFila.clean: duplicates removed, seats sorted (the list is not empty)
AlocacaoFilaClean(b) == [b EXCEPT !.assentos = Ordenado(Elementos(b.assentos))]

\* Alocacao.adicionar_alocacao_fila: the block list and the outcome of the call
AdicionarAlocacaoFila(alocs, curso_id, fila_nome, assentos) ==
    IF assentos = <<>>
    THEN [alocacoes |-> alocs, res |-> "ListaVazia"]
    ELSE [alocacoes |->
              Append(alocs, AlocacaoFilaClean([curso_id  |-> curso_id,
                                               fila_nome |-> fila_nome,
                                               assentos  |-> assentos])),
          res |-> "ok"]

\* Alocacao.remover_alocacao_curso
RemoverAlocacaoCurso(alocs, curso_id) ==
    SelectSeq(alocs, LAMBDA b : b.curso_id # curso_id)

\* Alocacao.clean, lines 101-112: the conflicts found by the scan.  The map
\* keeps, per "fila_seat" key, the category of the last block seen; a conflict
\* is recorded when a block meets a key held by another category.
RECURSIVE ConflitosClean(_, _)
ConflitosClean(alocs, mapa) ==
    IF alocs = <<>> THEN {}
    ELSE LET b      == alocs[1]
             chaves == {<<b.fila_nome, a>> : a \in Elementos(b.assentos)}
             achados == {ch \in chaves :
                            ch \in DOMAIN mapa /\ mapa[ch] # b.curso_id}
             novo   == [ch \in DOMAIN mapa \cup chaves |->
                            IF ch \in chaves THEN b.curso_id ELSE mapa[ch]]
         IN  achados \cup ConflitosClean(Tail(alocs), novo)

\* the empty map
MapaVazio == [ch \in {} |-> ""]

\* Alocacao.clean: the error it raises, or "ok"
AlocacaoClean(alocs) ==
    IF alocs = <<>> THEN "SemAlocacoes"
    ELSE IF ConflitosClean(alocs, MapaVazio) # {} THEN "ConflitoAssentos"
    ELSE "ok"

\* the field validators of a block: curso_id and fila_nome required, the seat
\* list required (not empty), every seat an int >= 1
CamposBlocoValidos(b) ==
    /\ b.curso_id # ""
    /\ b.fila_nome # <<>>
    /\ b.assentos # <<>>
    /\ \A i \in 1..Len(b.assentos) : b.assentos[i] >= 1

\* Alocacao.save: Alocacao.clean, then every block's clean and validators;
\* the document written, or the error raised
AlocacaoSave(alocs) ==
    LET limpa == [i \in 1..Len(alocs) |-> AlocacaoFilaClean(alocs[i])]
    IN  IF AlocacaoClean(alocs) # "ok"
        THEN [alocacoes |-> alocs, res |-> AlocacaoClean(alocs)]
        ELSE IF \E i \in 1..Len(limpa) : ~CamposBlocoValidos(limpa[i])
             THEN [alocacoes |-> alocs, res |-> "BlocoInvalido"]
             ELSE [alocacoes |-> limpa, res |-> "ok"]

\* the blocks counted instead of their seats
TotalAssentosAlocadosPorBloco(alocs) == Len(alocs)

\* Alocacao.total_assentos_alocados
RECURSIVE TotalAssentosAlocados(_)
TotalAssentosAlocados(alocs) ==
    IF alocs = <<>> THEN 0
    ELSE Len(alocs[1].assentos) + TotalAssentosAlocados(Tail(alocs))

\* Alocacao.get_alocacoes_por_fila
GetAlocacoesPorFila(alocs, fila_nome) ==
    SelectSeq(alocs, LAMBDA b : b.fila_nome = fila_nome)

\* the seat lists of a block list, one after the other (assentos.extend)
RECURSIVE AssentosJuntos(_)
AssentosJuntos(alocs) ==
    IF alocs = <<>> THEN <<>>
    ELSE alocs[1].assentos \o AssentosJuntos(Tail(alocs))

\* Alocacao.get_assentos_ocupados_fila
GetAssentosOcupadosFila(alocs, fila_nome) ==
    Ordenado(Elementos(AssentosJuntos(GetAlocacoesPorFila(alocs, fila_nome))))

\* greatest common divisor, for fractions in lowest terms
RECURSIVE Mdc(_, _)
Mdc(a, b) == IF b = 0 THEN a ELSE Mdc(b, a % b)

\* a / b as a fraction in lowest terms, <<numerator, denominator>>
Fracao(a, b) == <<a \div Mdc(a, b), b \div Mdc(a, b)>>

\* the occupancy rate as the fraction allocated / capacity, the * 100 left out
TaxaOcupacaoSemCem(total_local, alocs) ==
    IF total_local = 0 THEN <<0, 1>>
    ELSE Fracao(TotalAssentosAlocados(alocs), total_local)

\* Alocacao.taxa_ocupacao: (total_assentos_alocados / local.total_assentos)
\* * 100, as a fraction in lowest terms (the float of the code is the double
\* nearest to it; a whole number below 2^53 is that number exactly)
TaxaOcupacao(total_local, alocs) ==
    IF total_local = 0 THEN <<0, 1>>
    ELSE Fracao(TotalAssentosAlocados(alocs) * 100, total_local)

\* Alocacao.taxa_ocupacao of a document: local is Nenhum (no venue) or the
\* rows of the venue; Local.total_assentos is the sum of the row capacities
TaxaOcupacaoDoDocumento(local, alocs) ==
    IF local = Nenhum THEN <<0, 1>>
    ELSE TaxaOcupacao(TotalAssentos(local[1]), alocs)

\* str(n) for a natural number
RECURSIVE StrNat(_)
StrNat(n) ==
    IF n < 10 THEN <<Digitos[n + 1]>>
    ELSE StrNat(n \div 10) \o <<Digitos[(n % 10) + 1]>>

\* str(n) for an integer
Str(n) == IF n < 0 THEN <<"-">> \o StrNat(-n) ELSE StrNat(n)

\* ", ".join(map(str, assentos))
RECURSIVE JoinVirgula(_)
JoinVirgula(assentos) ==
    IF assentos = <<>> THEN <<>>
    ELSE IF Len(assentos) = 1 THEN Str(assentos[1])
    ELSE Str(assentos[1]) \o <<",", " ">> \o JoinVirgula(Tail(assentos))

\* AlocacaoFila.primeiro_assento: min(assentos), 0 for an empty list
PrimeiroAssento(assentos) ==
    IF assentos = <<>> THEN 0
    ELSE CHOOSE x \in Elementos(assentos) : \A y \in Elementos(assentos) : x <= y

\* AlocacaoFila.ultimo_assento: max(assentos), 0 for an empty list
UltimoAssento(assentos) ==
    IF assentos = <<>> THEN 0
    ELSE CHOOSE x \in Elementos(assentos) : \A y \in Elementos(assentos) : y <= x

\* AlocacaoFila.range_assentos
RangeAssentos(assentos) ==
    IF assentos = <<>> THEN <<>>
    ELSE IF Len(assentos) = 1 THEN Str(assentos[1])
    ELSE IF UltimoAssento(assentos) - PrimeiroAssento(assentos) = Len(assentos) - 1
         THEN Str(PrimeiroAssento(assentos)) \o <<"-">> \o Str(UltimoAssento(assentos))
         ELSE JoinVirgula(assentos)

\* the blocks of every category returned for any one of them
GetAlocacoesPorCursoSemFiltro(alocs, curso_id) == alocs

\* Alocacao.get_alocacoes_por_curso
GetAlocacoesPorCurso(alocs, curso_id) ==
    SelectSeq(alocs, LAMBDA b : b.curso_id = curso_id)

\* Alocacao.get_cursos_alocados, as the set the list is built from
GetCursosAlocados(alocs) == {alocs[i].curso_id : i \in 1..Len(alocs)}

\* Alocacao.get_resumo_por_curso: the dict, one entry per allocated category
GetResumoPorCurso(alocs) ==
    [curso_id \in GetCursosAlocados(alocs) |->
        LET alocacoes_curso == GetAlocacoesPorCurso(alocs, curso_id)
        IN  [total_assentos   |-> TotalAssentosAlocados(alocacoes_curso),
             filas_ocupadas   |-> [i \in 1..Len(alocacoes_curso) |->
                                      alocacoes_curso[i].fila_nome],
             quantidade_filas |-> Len(alocacoes_curso),
             detalhes_filas   |-> [i \in 1..Len(alocacoes_curso) |->
                                      [fila     |-> alocacoes_curso[i].fila_nome,
                                       assentos |-> Len(alocacoes_curso[i].assentos),
                                       range    |-> RangeAssentos(
                                                      alocacoes_curso[i].assentos)]]]]

----------------------------------------------------------------------------
(* _gerar_alocacao_sequencial: sequential first fit by row order.          *)
(* The cursor is a record: alocacoes (the blocks so far), assento_atual,   *)
(* fila_index (0-based, as in the code), assentos_necessarios and res      *)
(* ("ok", or the error raised inside the loop).                            *)

Min(a, b) == IF a <= b THEN a ELSE b

\* the loop body with the row's free seats counted one short
\* (capacity - assento_atual, without the + 1)
PassoWhileUmAMenos(fo, st, curso_id) ==
    LET fila        == fo[st.fila_index + 1]
        disponiveis == fila.quantidade_assentos - st.assento_atual
        quantidade  == Min(st.assentos_necessarios, disponiveis)
        assentos    == Range(st.assento_atual, st.assento_atual + quantidade)
        r           == AdicionarAlocacaoFila(st.alocacoes, curso_id, fila.nome, assentos)
        atual       == st.assento_atual + quantidade
        avanca      == atual >= fila.quantidade_assentos
    IN  IF r.res # "ok"
        THEN [st EXCEPT !.res = r.res]
        ELSE [alocacoes            |-> r.alocacoes,
              assentos_necessarios |-> st.assentos_necessarios - quantidade,
              assento_atual        |-> IF avanca THEN 1 ELSE atual,
              fila_index           |-> IF avanca THEN st.fila_index + 1
                                       ELSE st.fila_index,
              res                  |-> "ok"]

\* the loop body reserving one seat per iteration
PassoWhileUmPorVez(fo, st, curso_id) ==
    LET fila     == fo[st.fila_index + 1]
        assentos == Range(st.assento_atual, st.assento_atual + 1)
        r        == AdicionarAlocacaoFila(st.alocacoes, curso_id, fila.nome, assentos)
        atual    == st.assento_atual + 1
        avanca   == atual > fila.quantidade_assentos
    IN  [alocacoes            |-> r.alocacoes,
         assentos_necessarios |-> st.assentos_necessarios - 1,
         assento_atual        |-> IF avanca THEN 1 ELSE atual,
         fila_index           |-> IF avanca THEN st.fila_index + 1 ELSE st.fila_index,
         res                  |-> "ok"]

\* the loop body moving to the next row without resetting the seat offset
PassoWhileSemReset(fo, st, curso_id) ==
    LET fila        == fo[st.fila_index + 1]
        disponiveis == fila.quantidade_assentos - st.assento_atual + 1
        quantidade  == Min(st.assentos_necessarios, disponiveis)
        assentos    == Range(st.assento_atual, st.assento_atual + quantidade)
        r           == AdicionarAlocacaoFila(st.alocacoes, curso_id, fila.nome, assentos)
        atual       == st.assento_atual + quantidade
        avanca      == atual > fila.quantidade_assentos
    IN  IF r.res # "ok"
        THEN [st EXCEPT !.res = r.res]
        ELSE [alocacoes            |-> r.alocacoes,
              assentos_necessarios |-> st.assentos_necessarios - quantidade,
              assento_atual        |-> atual,
              fila_index           |-> IF avanca THEN st.fila_index + 1
                                       ELSE st.fila_index,
              res                  |-> "ok"]

\* the loop body reserving nothing and leaving the cursor where it is
PassoWhileParado(fo, st, curso_id) == st

\* the loop body leaving the row after every block, full or not
PassoWhilePulaFila(fo, st, curso_id) ==
    LET fila        == fo[st.fila_index + 1]
        disponiveis == fila.quantidade_assentos - st.assento_atual + 1
        quantidade  == Min(st.assentos_necessarios, disponiveis)
        assentos    == Range(st.assento_atual, st.assento_atual + quantidade)
        r           == AdicionarAlocacaoFila(st.alocacoes, curso_id, fila.nome, assentos)
    IN  IF r.res # "ok"
        THEN [st EXCEPT !.res = r.res]
        ELSE [alocacoes            |-> r.alocacoes,
              assentos_necessarios |-> st.assentos_necessarios - quantidade,
              assento_atual        |-> 1,
              fila_index           |-> st.fila_index + 1,
              res                  |-> "ok"]

\* the body of the while loop, lines 70-86
PassoWhile(fo, st, curso_id) ==
    LET fila        == fo[st.fila_index + 1]
        disponiveis == fila.quantidade_assentos - st.assento_atual + 1
        quantidade  == Min(st.assentos_necessarios, disponiveis)
        assentos    == Range(st.assento_atual, st.assento_atual + quantidade)
        r           == AdicionarAlocacaoFila(st.alocacoes, curso_id, fila.nome, assentos)
        atual       == st.assento_atual + quantidade
        avanca      == atual > fila.quantidade_assentos
    IN  IF r.res # "ok"
        THEN [st EXCEPT !.res = r.res]
        ELSE [alocacoes            |-> r.alocacoes,
              assentos_necessarios |-> st.assentos_necessarios - quantidade,
              assento_atual        |-> IF avanca THEN 1 ELSE atual,
              fila_index           |-> IF avanca THEN st.fila_index + 1
                                       ELSE st.fila_index,
              res                  |-> "ok"]

\* the while loop, line 69: runs until the demand is seated or the rows end
\* (or the body raised)
RECURSIVE LoopWhile(_, _, _)
LoopWhile(fo, st, curso_id) ==
    IF st.res = "ok" /\ st.assentos_necessarios > 0 /\ st.fila_index < Len(fo)
    THEN LoopWhile(fo, PassoWhile(fo, st, curso_id), curso_id)
    ELSE st

\* the for loop over formatura.cursos, lines 66-86, from demand k on
RECURSIVE LoopFor(_, _, _, _)
LoopFor(fo, cs, k, st) ==
    IF k > Len(cs) \/ st.res # "ok" THEN st
    ELSE LoopFor(fo, cs, k + 1,
                 LoopWhile(fo, [st EXCEPT !.assentos_necessarios = QtdAssentos(cs[k])],
                           cs[k].curso_id))

\* the iterations of the while loop for one demand, in order: the cursor
\* before and after each execution of the body
RECURSIVE IteracoesWhile(_, _, _)
IteracoesWhile(fo, st, curso_id) ==
    IF st.res = "ok" /\ st.assentos_necessarios > 0 /\ st.fila_index < Len(fo)
    THEN LET depois == PassoWhile(fo, st, curso_id)
         IN  <<[antes |-> st, depois |-> depois, curso_id |-> curso_id]>>
                 \o IteracoesWhile(fo, depois, curso_id)
    ELSE <<>>

\* the iterations of the while loop over the whole for loop, from demand k on
RECURSIVE IteracoesFor(_, _, _, _)
IteracoesFor(fo, cs, k, st) ==
    IF k > Len(cs) \/ st.res # "ok" THEN <<>>
    ELSE LET entra == [st EXCEPT !.assentos_necessarios = QtdAssentos(cs[k])]
         IN  IteracoesWhile(fo, entra, cs[k].curso_id)
                 \o IteracoesFor(fo, cs, k + 1, LoopWhile(fo, entra, cs[k].curso_id))

\* every execution of the loop body in one call, in order
Iteracoes(fo, cs) ==
    IteracoesFor(fo, cs, 1,
                 [alocacoes |-> <<>>, assentos_necessarios |-> 0,
                  assento_atual |-> 1, fila_index |-> 0, res |-> "ok"])

\* _gerar_alocacao_sequencial over rows already put in order (line 62)
GerarSobre(fo, cs) ==
    LET fim == LoopFor(fo, cs, 1,
                       [alocacoes |-> <<>>, assentos_necessarios |-> 0,
                        assento_atual |-> 1, fila_index |-> 0, res |-> "ok"])
    IN  [alocacoes |-> fim.alocacoes, res |-> fim.res,
         assento_atual |-> fim.assento_atual, fila_index |-> fim.fila_index]

\* _gerar_alocacao_sequencial(formatura)
GerarAlocacaoSequencial(fs, cs) == GerarSobre(FilasOrdenadas(fs), cs)

\* the free seats of a row with the last seat of the row left out
\* (range(1, quantidade_assentos))
VaziosDaFilaSemUltimo(alocs, fila) ==
    Ordenado((1..(fila.quantidade_assentos - 1))
                 \ Elementos(AssentosJuntos(GetAlocacoesPorFila(alocs, fila.nome))))

\* _calcular_assentos_vazios, lines 31-40: the free seats of one row, sorted
VaziosDaFila(alocs, fila) ==
    Ordenado((1..fila.quantidade_assentos)
                 \ Elementos(AssentosJuntos(GetAlocacoesPorFila(alocs, fila.nome))))

\* _calcular_assentos_vazios: one entry per row that has a free seat, in row
\* order
RECURSIVE EntradasVazios(_, _)
EntradasVazios(fo, alocs) ==
    IF fo = <<>> THEN <<>>
    ELSE LET vazios == VaziosDaFila(alocs, fo[1])
         IN  (IF vazios # <<>>
              THEN <<[fila |-> fo[1].nome, assentos_vazios |-> vazios,
                      total_vazios |-> Len(vazios)]>>
              ELSE <<>>)
             \o EntradasVazios(Tail(fo), alocs)

CalcularAssentosVazios(fs, alocs) == EntradasVazios(FilasOrdenadas(fs), alocs)

\* the free seats the report lists for a row: those of its entries, none when
\* the row is not listed
VaziosReportados(relatorio, fila_nome) ==
    UNION {Elementos(relatorio[i].assentos_vazios) :
              i \in {j \in 1..Len(relatorio) : relatorio[j].fila = fila_nome}}

----------------------------------------------------------------------------
(* Saving a venue, and the route that creates one.                         *)

\* the field validators of Fila: nome required, max_length 10;
\* quantidade_assentos an int in 1..100; ordem, when given, at least 1
CamposFilaValidos(f) ==
    /\ f.nome # <<>>
    /\ Len(f.nome) <= 10
    /\ f.quantidade_assentos >= CapMin
    /\ f.quantidade_assentos <= CapMax
    /\ (f.ordem # Nenhum => f.ordem[1] >= 1)

\* Local.clean, the row checks: at least one row, names pairwise different
LocalCleanOk(fs) ==
    /\ fs # <<>>
    /\ \A i, j \in 1..Len(fs) : i # j => fs[i].nome # fs[j].nome

\* Local.save: the rows are sorted by their key, then the document is validated
\* (Local.clean, then each row's clean and field validators) and written
LocalSave(fs) ==
    LET ord   == OrdenarEstavel(fs)
        limpa == [i \in 1..Len(ord) |-> FilaClean(ord[i])]
    IN  IF /\ LocalCleanOk(ord)
           /\ \A i \in 1..Len(ord) : ErrosFila(ord[i]) = {}
           /\ \A i \in 1..Len(limpa) : CamposFilaValidos(limpa[i])
        THEN [filas |-> limpa, res |-> "ok"]
        ELSE [filas |-> fs, res |-> "LocalInvalido"]

\* criar_local, the loop over data["filas"]: adicionar_fila for each entry,
\* stopping at the first error
RECURSIVE AdicionarTodas(_, _)
AdicionarTodas(fs, dados) ==
    IF dados = <<>> THEN [filas |-> fs, res |-> "ok"]
    ELSE LET r == AdicionarFila(fs, dados[1].nome, dados[1].quantidade_assentos,
                                dados[1].ordem)
         IN  IF r.res # "ok" THEN r ELSE AdicionarTodas(r.filas, Tail(dados))

\* criar_local: the rows of the venue it saves, or the error it answers
CriarLocal(dados) ==
    IF dados = <<>> THEN [filas |-> <<>>, res |-> "SemFilas"]
    ELSE LET r == AdicionarTodas(<<>>, dados)
         IN  IF r.res # "ok" THEN r ELSE LocalSave(r.filas)

----------------------------------------------------------------------------
(* The venue under its row operations.                                     *)

\* the largest number of rows the venue is given
MaxFilas == 2

\* row names as callers write them: valid, lower case, padded, malformed, empty
NomesBrutos ==
    { <<"1","a">>, <<" ","1","A">>, <<"1","B">>, <<"A","1">>, <<>> }

\* seat counts as callers write them, around both ends of the valid range
Quantidades == {-1, 0, 1, CapMax, CapMax + 1}

\* orders as callers write them: omitted, or explicit
OrdensDadas == {Nenhum, Algum(2)}

\* the venue before any row operation
InicioLocal ==
    /\ filas = <<>>
    /\ opLocal = "nenhuma"
    /\ resLocal = "ok"

\* no allocation call under way
InicioGerar ==
    /\ localG = <<>>
    /\ cursosG = <<>>
    /\ resultado = <<>>

\* a new Alocacao document, not yet saved
InicioAloc ==
    /\ alocMem = <<>>
    /\ alocSalva = [existe |-> FALSE, alocacoes |-> <<>>]
    /\ resAloc = "ok"

\* an empty database, no request made
InicioDB ==
    /\ localP = <<>>
    /\ cursosDB = {}
    /\ formaturasDB = {}
    /\ alocacoesDB = {}
    /\ proxId = 1
    /\ deleteAceita = TRUE
    /\ pedido = [total |-> 0, verificou |-> FALSE]
    /\ resposta = [status |-> "nenhuma", assentos_necessarios |-> 0,
                   assentos_disponiveis |-> 0]

\* a new Formatura, no demand yet
InicioForm ==
    /\ cursosF = <<>>
    /\ opForm = "nenhuma"
    /\ resForm = "ok"

\* no iteration-by-iteration call under way
InicioLaco == cursor = [pc |-> "nenhum"]

\* no value read from an Alocacao document yet
InicioDoc ==
    /\ localA = <<>>
    /\ consulta = [feita |-> FALSE]

\* a new Formatura: the field defaults
InicioStatus ==
    /\ status = "planejamento"
    /\ alocacao_gerada = FALSE
    /\ opStatus = "nenhuma"

\* no request being served step by step
InicioReq == req = <<>>

InitLocal ==
    InicioLocal /\ InicioGerar /\ InicioAloc /\ InicioDB /\ InicioForm /\ InicioLaco
    /\ InicioDoc /\ InicioStatus /\ InicioReq

ChamarAdicionarFila ==
    \E nome \in NomesBrutos, qtd \in Quantidades, ordem \in OrdensDadas :
        /\ Len(filas) < MaxFilas
        /\ LET r == AdicionarFila(filas, nome, qtd, ordem)
           IN  /\ filas' = r.filas
               /\ resLocal' = r.res
        /\ opLocal' = "adicionar_fila"
        /\ UNCHANGED <<varsGerar, varsAloc, varsDB, varsForm, varsLaco, varsDoc, varsStatus, varsReq>>

ChamarRemoverFila ==
    \E nome \in NomesBrutos :
        /\ LET r == RemoverFila(filas, nome)
           IN  /\ filas' = r.filas
               /\ resLocal' = r.res
        /\ opLocal' = "remover_fila"
        /\ UNCHANGED <<varsGerar, varsAloc, varsDB, varsForm, varsLaco, varsDoc, varsStatus, varsReq>>

ChamarAtualizarFila ==
    \E nome \in NomesBrutos,
       qtdOpt \in {Nenhum} \cup {Algum(q) : q \in Quantidades},
       ordemOpt \in OrdensDadas :
        /\ LET r == AtualizarFila(filas, nome, qtdOpt, ordemOpt)
           IN  /\ filas' = r.filas
               /\ resLocal' = r.res
        /\ opLocal' = "atualizar_fila"
        /\ UNCHANGED <<varsGerar, varsAloc, varsDB, varsForm, varsLaco, varsDoc, varsStatus, varsReq>>

\* local.save(): the in-place sort of line 104 is done before validation, so
\* the rows in memory end sorted whether or not the document is written
ChamarSalvarLocal ==
    /\ LET r == LocalSave(filas)
       IN  /\ filas' = IF r.res = "ok" THEN r.filas ELSE OrdenarEstavel(filas)
           /\ resLocal' = r.res
    /\ opLocal' = "save"
    /\ UNCHANGED <<varsGerar, varsAloc, varsDB, varsForm, varsLaco, varsDoc, varsStatus, varsReq>>

NextLocal ==
    \/ ChamarAdicionarFila
    \/ ChamarRemoverFila
    \/ ChamarAtualizarFila
    \/ ChamarSalvarLocal

SpecLocal == InitLocal /\ [][NextLocal]_vars

\* C7: after any sequence of adicionar_fila, atualizar_fila and remover_fila the
\* row codes of the venue are pairwise distinct (adicionar_fila refuses a code
\* that equals, after trim and upper-casing, the code of a row already there).
C7_NomesDistintos ==
    \A i, j \in 1..Len(filas) : i # j => filas[i].nome # filas[j].nome

\* C8: after any sequence of adicionar_fila and atualizar_fila calls, successful
\* or failed, every row of the venue has a code of the form number+letter and a
\* seat count in [1, 100].
C8_FilasValidas ==
    \A i \in 1..Len(filas) :
        /\ CasaPadraoFila(filas[i].nome)
        /\ filas[i].quantidade_assentos >= CapMin
        /\ filas[i].quantidade_assentos <= CapMax

\* C9: atualizar_fila fails with "not found" only when no row matches, and when
\* its re-validation fails the rows keep the seat counts and orders they had
\* before the call.
C9_FalhaNaoAltera ==
    [][(opLocal' = "atualizar_fila" /\ resLocal' # "ok") => filas' = filas]_vars

\* the sort key the rows are meant to have: the explicit order, or the key
\* computed from the name when the row has none
ChaveDeclarada(f) ==
    IF f.ordem # Nenhum THEN f.ordem[1] ELSE CalcularOrdem(f.nome)

----------------------------------------------------------------------------
(* Rows added without an explicit order.                                   *)

\* the numbers and the letters row codes are written with, with their values
NumerosOrdem ==
    { [txt |-> <<"1">>, val |-> 1], [txt |-> <<"2">>, val |-> 2],
      [txt |-> <<"1","0">>, val |-> 10] }

LetrasOrdem ==
    { [txt |-> "A", pos |-> 1], [txt |-> "B", pos |-> 2],
      [txt |-> "Y", pos |-> 25], [txt |-> "Z", pos |-> 26] }

NomesOrdem == {n.txt \o <<l.txt>> : n \in NumerosOrdem, l \in LetrasOrdem}

\* adicionar_fila(nome, 1): no order supplied
ChamarAdicionarFilaSemOrdem ==
    \E nome \in NomesOrdem :
        /\ Len(filas) < MaxFilas
        /\ LET r == AdicionarFila(filas, nome, 1, Nenhum)
           IN  /\ filas' = r.filas
               /\ resLocal' = r.res
        /\ opLocal' = "adicionar_fila"
        /\ UNCHANGED <<varsGerar, varsAloc, varsDB, varsForm, varsLaco, varsDoc, varsStatus, varsReq>>

NextOrdem == ChamarAdicionarFilaSemOrdem \/ ChamarSalvarLocal

SpecOrdem == InitLocal /\ [][NextOrdem]_vars

\* the position of the first row of the list that has this name, 0 when none
PosicaoDaFila(fs, nome) ==
    IF \E i \in 1..Len(fs) : fs[i].nome = nome
    THEN CHOOSE i \in 1..Len(fs) :
            fs[i].nome = nome /\ \A j \in 1..(i - 1) : fs[j].nome # nome
    ELSE 0

\* C16: a row added without an order, with code <number><letter>, gets the
\* order (number - 1) * 26 + (position of the letter in the alphabet): 10B gets
\* 236, 1A gets 1, and filas_ordenadas puts 1A before 10B.
C16_OrdemCalculada ==
    /\ \A i \in 1..Len(filas) :
          \A n \in NumerosOrdem, l \in LetrasOrdem :
              filas[i].nome = n.txt \o <<l.txt>>
                  => filas[i].ordem = Algum((n.val - 1) * 26 + l.pos)
    /\ \A i \in 1..Len(filas) :
          /\ filas[i].nome = <<"1","0","B">> => filas[i].ordem = Algum(236)
          /\ filas[i].nome = <<"1","A">> => filas[i].ordem = Algum(1)
    /\ LET fo == FilasOrdenadas(filas)
       IN  (PosicaoDaFila(fo, <<"1","A">>) # 0 /\ PosicaoDaFila(fo, <<"1","0","B">>) # 0)
               => PosicaoDaFila(fo, <<"1","A">>) < PosicaoDaFila(fo, <<"1","0","B">>)

\* the venue was given 10B and then 1A
C16_Witness ==
    /\ Len(filas) >= 2
    /\ filas[1].nome = <<"1","0","B">>
    /\ filas[2].nome = <<"1","A">>

----------------------------------------------------------------------------
(* Row codes with a number written with a leading zero, or the number 0.   *)

\* row codes that match [0-9]+[A-Z]
CodigosDeFila ==
    { <<"1","A">>, <<"0","1","A">>, <<"0","A">>, <<"0","Z">>, <<"1","B">>,
      <<"2","A">>, <<"1","Z">>, <<"2","B">>, <<"1","0","A">> }

\* adicionar_fila(nome, 1) with such a code, no order supplied
ChamarAdicionarFilaDeCodigo ==
    \E nome \in CodigosDeFila :
        /\ Len(filas) < MaxFilas
        /\ \E r \in {AdicionarFila(filas, nome, 1, Nenhum)} :
               /\ filas' = r.filas
               /\ resLocal' = r.res
        /\ opLocal' = "adicionar_fila"
        /\ UNCHANGED <<varsGerar, varsAloc, varsDB, varsForm, varsLaco, varsDoc,
                       varsStatus, varsReq>>

NextCodigo == ChamarAdicionarFilaDeCodigo \/ ChamarSalvarLocal

SpecCodigo == InitLocal /\ [][NextCodigo]_vars

\* C26: for every row code that row validation accepts, the computed ordering
\* key is an integer >= 1, and two rows of one venue with distinct codes never
\* get the same computed key.
C26_ChaveEstrita ==
    /\ \A i \in 1..Len(filas) : CalcularOrdem(filas[i].nome) >= 1
    /\ \A i, j \in 1..Len(filas) :
          filas[i].nome # filas[j].nome
              => CalcularOrdem(filas[i].nome) # CalcularOrdem(filas[j].nome)

----------------------------------------------------------------------------
(* Two calls of _gerar_alocacao_sequencial on the same event.              *)

\* the largest seat count of a row, the largest number of demands of an event
\* and the largest number of graduates of a demand
MaxCap == 3

MaxCursos == 2

MaxFormandos == 2

\* row names and explicit orders a venue is created with
NomesFilas == { <<"1","A">>, <<"1","B">>, <<"2","A">> }

OrdensFilas == {Nenhum, Algum(1)}

DadosFila ==
    [nome : NomesFilas, quantidade_assentos : 1..MaxCap, ordem : OrdensFilas]

\* the bodies criar_local is called with
DadosLocal == UNION {[1..n -> DadosFila] : n \in 1..MaxFilas}

\* category ids, in the order events list them
CursoIds == <<"MED", "LAW", "ENG", "ADM", "DIR">>

\* the demand lists of saved events: distinct categories, positive counts
ListasCursos ==
    UNION {{[k \in 1..n |-> [curso_id |-> CursoIds[k], qtd_formandos |-> q[k]]] :
               q \in [1..n -> 1..MaxFormandos]} : n \in 1..MaxCursos}

\* the orders a sort that is not stable can return: every arrangement of the
\* rows in which the keys do not decrease
OrdenacoesInstaveis(fs) ==
    {[i \in 1..Len(fs) |-> fs[p[i]]] :
        p \in {q \in [1..Len(fs) -> 1..Len(fs)] :
                  /\ \A i, j \in 1..Len(fs) : i # j => q[i] # q[j]
                  /\ \A i \in 1..(Len(fs) - 1) :
                        ChaveOrdem(fs[q[i]]) <= ChaveOrdem(fs[q[i + 1]])}}

\* the orders sorted() can return for a row list: one, the stable one
Ordenacoes(fs) == {FilasOrdenadas(fs)}

Chamadas == {1, 2}

Pendente == [feito |-> FALSE, res |-> "ok", alocacoes |-> <<>>,
             assento_atual |-> 1, fila_index |-> 0]

InitGerar ==
    /\ InicioLocal
    /\ InicioAloc
    /\ InicioForm
    /\ InicioLaco
    /\ InicioDoc
    /\ InicioStatus
    /\ InicioReq
    /\ InicioDB
    /\ \E dados \in DadosLocal :
           LET r == CriarLocal(dados)
           IN  r.res = "ok" /\ localG = r.filas
    /\ cursosG \in ListasCursos
    /\ resultado = [c \in Chamadas |-> Pendente]

\* one call of _gerar_alocacao_sequencial(formatura), start to return
ChamarGerar(c) ==
    /\ ~resultado[c].feito
    /\ \E fo \in Ordenacoes(localG) :
           LET g == GerarSobre(fo, cursosG)
           IN  resultado' = [resultado EXCEPT ![c] =
                   [feito |-> TRUE, res |-> g.res, alocacoes |-> g.alocacoes,
                    assento_atual |-> g.assento_atual, fila_index |-> g.fila_index]]
    /\ UNCHANGED <<localG, cursosG>>
    /\ UNCHANGED <<varsLocal, varsAloc, varsDB, varsForm, varsLaco, varsDoc, varsStatus, varsReq>>

NextGerar == \E c \in Chamadas : ChamarGerar(c)

SpecGerar == InitGerar /\ [][NextGerar]_vars

----------------------------------------------------------------------------
(* Properties of _gerar_alocacao_sequencial.                               *)

\* the (row, seat) pairs held by the blocks of an allocation
Pares(alocs) ==
    UNION {{<<alocs[i].fila_nome, a>> : a \in Elementos(alocs[i].assentos)} :
              i \in 1..Len(alocs)}

\* two different blocks of the allocation hold the same seat of the same row
BlocosEmConflito(alocs) ==
    \E i, j \in 1..Len(alocs) :
        /\ i # j
        /\ alocs[i].fila_nome = alocs[j].fila_nome
        /\ Elementos(alocs[i].assentos) \cap Elementos(alocs[j].assentos) # {}

\* the seats the allocation holds for a category, block by block
RECURSIVE AssentosDoCurso(_, _)
AssentosDoCurso(alocs, curso_id) ==
    IF alocs = <<>> THEN 0
    ELSE (IF alocs[1].curso_id = curso_id THEN Len(alocs[1].assentos) ELSE 0)
            + AssentosDoCurso(Tail(alocs), curso_id)

\* the event fits its venue
Cabe == TotalAssentosNecessarios(cursosG) <= TotalAssentos(localG)

\* C1: for a venue with row capacities in range and a demand list with distinct
\* categories and positive counts whose total does not exceed the venue's
\* capacity, the call succeeds, its blocks hold exactly sum(counts) seats, and
\* no (row, seat) pair is in two blocks.
C1_AlocacaoCompleta ==
    \A c \in DOMAIN resultado :
        (resultado[c].feito /\ Cabe) =>
            /\ resultado[c].res = "ok"
            /\ Cardinality(Pares(resultado[c].alocacoes))
                  = TotalAssentosNecessarios(cursosG)
            /\ TotalAssentosAlocados(resultado[c].alocacoes)
                  = TotalAssentosNecessarios(cursosG)
            /\ ~BlocosEmConflito(resultado[c].alocacoes)

\* a call returned for an event of two demands that fills two rows to the last
\* seat, the second demand crossing the row boundary
C1_Witness ==
    \E c \in DOMAIN resultado :
        /\ resultado[c].feito
        /\ Cabe
        /\ Len(cursosG) >= 2
        /\ Len(localG) >= 2
        /\ Len(resultado[c].alocacoes) >= 3
        /\ TotalAssentosNecessarios(cursosG) = TotalAssentos(localG)

\* C3: a call that returns an allocation never returns a partial one: when the
\* rows ran out it failed (AllocationFailed), otherwise every demand holds the
\* seats it asked for.
C3_NuncaParcial ==
    \A c \in DOMAIN resultado :
        resultado[c].feito =>
            \/ resultado[c].res = "AllocationFailed"
            \/ \A k \in 1..Len(cursosG) :
                  AssentosDoCurso(resultado[c].alocacoes, cursosG[k].curso_id)
                      = QtdAssentos(cursosG[k])

\* C6: every block is a run of consecutive seat numbers of one row, and a
\* category has at most one block in a row.
C6_BlocosContiguos ==
    \A c \in DOMAIN resultado :
        resultado[c].feito =>
            LET alocs == resultado[c].alocacoes
            IN  /\ \A i \in 1..Len(alocs) :
                      /\ alocs[i].assentos # <<>>
                      /\ alocs[i].assentos
                            = Range(alocs[i].assentos[1],
                                    alocs[i].assentos[1] + Len(alocs[i].assentos))
                /\ \A i, j \in 1..Len(alocs) :
                      (i # j /\ alocs[i].curso_id = alocs[j].curso_id)
                          => alocs[i].fila_nome # alocs[j].fila_nome

\* a call returned blocks of one category in two rows, one of them of several seats
C6_Witness ==
    \E c \in DOMAIN resultado :
        /\ resultado[c].feito
        /\ \E i, j \in 1..Len(resultado[c].alocacoes) :
              /\ i # j
              /\ resultado[c].alocacoes[i].curso_id = resultado[c].alocacoes[j].curso_id
              /\ Len(resultado[c].alocacoes[j].assentos) >= 2

C11_OcupadosEVazios ==
    \A c \in DOMAIN resultado :
        resultado[c].feito =>
            LET alocs     == resultado[c].alocacoes
                relatorio == CalcularAssentosVazios(localG, alocs)
            IN  \A i \in 1..Len(localG) :
                    LET oc == Elementos(GetAssentosOcupadosFila(alocs, localG[i].nome))
                        vz == VaziosReportados(relatorio, localG[i].nome)
                    IN  /\ oc \cap vz = {}
                        /\ oc \cup vz = 1..localG[i].quantidade_assentos

\* a call returned for a venue of two rows: one full (not listed in the
\* report), the other with occupied and free seats
C11_Witness ==
    \E c \in DOMAIN resultado :
        /\ resultado[c].feito
        /\ resultado[c].res = "ok"
        /\ Cabe
        /\ LET alocs     == resultado[c].alocacoes
               relatorio == CalcularAssentosVazios(localG, alocs)
           IN  \E i, j \in 1..Len(localG) :
                  /\ VaziosReportados(relatorio, localG[i].nome) = {}
                  /\ VaziosReportados(relatorio, localG[j].nome) # {}
                  /\ GetAssentosOcupadosFila(alocs, localG[j].nome) # <<>>

\* the last block of a block list
UltimoBloco(alocs) == alocs[Len(alocs)]

\* an execution of the loop body that starts with as many seats to place as
\* the current row has left
NaFronteira(fo, it) ==
    it.antes.assentos_necessarios
        = fo[it.antes.fila_index + 1].quantidade_assentos - it.antes.assento_atual + 1

\* C13: when the seats a demand still needs equal the seats the current row
\* has left, the block reserved ends at the row's last seat and the cursor
\* becomes (next row, seat 1); the block of the next demand then starts at
\* seat 1 of the following row.
C13_Fronteira ==
    \A c \in DOMAIN resultado :
        resultado[c].feito =>
            LET fo  == FilasOrdenadas(localG)
                its == Iteracoes(fo, cursosG)
            IN  /\ its # <<>> => its[Len(its)].depois.alocacoes = resultado[c].alocacoes
                /\ \A i \in 1..Len(its) :
                      NaFronteira(fo, its[i]) =>
                          LET fila == fo[its[i].antes.fila_index + 1]
                              b    == UltimoBloco(its[i].depois.alocacoes)
                          IN  /\ b.curso_id = its[i].curso_id
                              /\ b.fila_nome = fila.nome
                              /\ b.assentos[1] = its[i].antes.assento_atual
                              /\ b.assentos[Len(b.assentos)] = fila.quantidade_assentos
                              /\ its[i].depois.assentos_necessarios = 0
                              /\ its[i].depois.fila_index = its[i].antes.fila_index + 1
                              /\ its[i].depois.assento_atual = 1
                              /\ i < Len(its) =>
                                    LET n == UltimoBloco(its[i + 1].depois.alocacoes)
                                    IN  /\ n.curso_id # its[i].curso_id
                                        /\ n.fila_nome
                                              = fo[its[i].antes.fila_index + 2].nome
                                        /\ n.assentos[1] = 1

\* a call returned in which a demand ended exactly at a row's last seat and
\* another demand was seated after it
C13_Witness ==
    \E c \in DOMAIN resultado :
        /\ resultado[c].feito
        /\ LET fo  == FilasOrdenadas(localG)
               its == Iteracoes(fo, cursosG)
           IN  \E i \in 1..Len(its) :
                  /\ NaFronteira(fo, its[i])
                  /\ i < Len(its)

\* every (row, seat) pair of a row list
TodosOsPares(fo) ==
    UNION {{<<fo[r].nome, a>> : a \in 1..fo[r].quantidade_assentos} :
              r \in 1..Len(fo)}

\* the (row, seat) pairs from a cursor position on: the seats of its row from
\* its seat number on, and every seat of the rows after it
ParesDesde(fo, fila_index, assento_atual) ==
    UNION {{<<fo[r].nome, a>> :
               a \in (IF r = fila_index + 1 THEN assento_atual ELSE 1)
                        ..fo[r].quantidade_assentos} :
              r \in (fila_index + 1)..Len(fo)}

\* C23: prefix fill.  In the allocation returned for an event that fits, the
\* blocks follow the canonical row order with the seat numbers increasing,
\* every row before the last touched row is occupied to its capacity, and the
\* free seats of the venue are exactly the seats from the final cursor
\* position on (the tail of the last touched row and all later rows).
C23_PreenchimentoEmPrefixo ==
    \A c \in DOMAIN resultado :
        (resultado[c].feito /\ Cabe) =>
            LET fo    == FilasOrdenadas(localG)
                alocs == resultado[c].alocacoes
                pos(i) == PosicaoDaFila(fo, alocs[i].fila_nome)
            IN  /\ resultado[c].res = "ok"
                /\ \A i \in 1..Len(alocs) :
                      /\ pos(i) >= 1
                      /\ \A k \in 1..(Len(alocs[i].assentos) - 1) :
                            alocs[i].assentos[k] < alocs[i].assentos[k + 1]
                /\ \A i \in 1..(Len(alocs) - 1) :
                      \/ pos(i) < pos(i + 1)
                      \/ /\ pos(i) = pos(i + 1)
                         /\ alocs[i].assentos[Len(alocs[i].assentos)]
                               < alocs[i + 1].assentos[1]
                /\ alocs # <<>> =>
                      \A r \in 1..(pos(Len(alocs)) - 1) :
                          GetAssentosOcupadosFila(alocs, fo[r].nome)
                              = Range(1, fo[r].quantidade_assentos + 1)
                /\ TodosOsPares(fo) \ Pares(alocs)
                      = ParesDesde(fo, resultado[c].fila_index,
                                   resultado[c].assento_atual)

\* a call returned for an event that fits with two demands in three blocks:
\* the first row is full, the second is left with free seats at its end
C23_Witness ==
    \E c \in DOMAIN resultado :
        /\ resultado[c].feito
        /\ Cabe
        /\ Len(resultado[c].alocacoes) = 3
        /\ resultado[c].fila_index = 1
        /\ resultado[c].assento_atual > 1
        /\ ParesDesde(FilasOrdenadas(localG), resultado[c].fila_index,
                      resultado[c].assento_atual) # {}

\* the position of a category in the demand list of the event, 0 when the
\* event does not demand it
PosicaoDoCurso(curso_id) ==
    IF \E k \in 1..Len(cursosG) : cursosG[k].curso_id = curso_id
    THEN CHOOSE k \in 1..Len(cursosG) : cursosG[k].curso_id = curso_id
    ELSE 0

\* C24: for the allocation returned for an event that fits, the summary by
\* category has one entry per demanded category, whose seat total is twice the
\* number of graduates of the demand, and the categories come in the block
\* sequence in the order of the demand list.
C24_ResumoPorCurso ==
    \A c \in DOMAIN resultado :
        (resultado[c].feito /\ Cabe) =>
            LET alocs  == resultado[c].alocacoes
                resumo == GetResumoPorCurso(alocs)
            IN  /\ DOMAIN resumo
                      = {cursosG[k].curso_id : k \in 1..Len(cursosG)}
                /\ \A k \in 1..Len(cursosG) :
                      resumo[cursosG[k].curso_id].total_assentos
                          = 2 * cursosG[k].qtd_formandos
                /\ \A i \in 1..Len(alocs) : PosicaoDoCurso(alocs[i].curso_id) >= 1
                /\ \A i \in 1..(Len(alocs) - 1) :
                      PosicaoDoCurso(alocs[i].curso_id)
                          <= PosicaoDoCurso(alocs[i + 1].curso_id)

\* a call returned for an event that fits with two demands of different
\* sizes, the larger one seated in two rows
C24_Witness ==
    \E c \in DOMAIN resultado :
        /\ resultado[c].feito
        /\ Cabe
        /\ Len(cursosG) = 2
        /\ cursosG[1].qtd_formandos # cursosG[2].qtd_formandos
        /\ \E k \in 1..2 :
              GetResumoPorCurso(resultado[c].alocacoes)[cursosG[k].curso_id]
                  = [total_assentos   |-> 4,
                     filas_ocupadas   |-> <<FilasOrdenadas(localG)[1].nome,
                                            FilasOrdenadas(localG)[2].nome>>,
                     quantidade_filas |-> 2,
                     detalhes_filas   |->
                         <<[fila     |-> FilasOrdenadas(localG)[1].nome,
                            assentos |-> 1, range |-> <<"3">>],
                           [fila     |-> FilasOrdenadas(localG)[2].nome,
                            assentos |-> 3, range |-> <<"1", "-", "3">>]>>]

----------------------------------------------------------------------------
(* The engine on an event and on the same event with two demands swapped.  *)

\* demand j copied over demand i, demand j kept
TrocarCopiando(cs, i, j) == [cs EXCEPT ![i] = cs[j]]

\* the demand list with the demands at positions i and j exchanged
Trocar(cs, i, j) == [cs EXCEPT ![i] = cs[j], ![j] = cs[i]]

\* the call on the event as it is
ChamarOriginal == ChamarGerar(1)

\* one call of _gerar_alocacao_sequencial on the event with two of its demands
\* exchanged; the list used is kept with the result
ChamarGerarTrocado ==
    /\ ~resultado[2].feito
    /\ \E i, j \in 1..Len(cursosG) :
          /\ i < j
          /\ LET cs == Trocar(cursosG, i, j)
                 g  == GerarAlocacaoSequencial(localG, cs)
             IN  resultado' = [resultado EXCEPT ![2] =
                     [feito |-> TRUE, res |-> g.res, alocacoes |-> g.alocacoes,
                      assento_atual |-> g.assento_atual,
                      fila_index |-> g.fila_index, cursos |-> cs]]
    /\ UNCHANGED <<localG, cursosG>>
    /\ UNCHANGED <<varsLocal, varsAloc, varsDB, varsForm, varsLaco, varsDoc, varsStatus, varsReq>>

NextTroca == ChamarOriginal \/ ChamarGerarTrocado

SpecTroca == InitGerar /\ [][NextTroca]_vars

\* the rows in which an allocation has a block of the category
FilasDoCurso(alocs, curso_id) ==
    {alocs[i].fila_nome : i \in {k \in 1..Len(alocs) : alocs[k].curso_id = curso_id}}

\* the swap changed the rows some category touches
TrocaMudaFilas ==
    \E k \in 1..Len(cursosG) :
        FilasDoCurso(resultado[1].alocacoes, cursosG[k].curso_id)
            # FilasDoCurso(resultado[2].alocacoes, cursosG[k].curso_id)

\* C14: for a venue of more than one row and an event that fits it, the call
\* on the event with two demands swapped returns an allocation without
\* conflict that seats every demand in full, and that differs from the
\* allocation of the original order whenever the swap changes the rows some
\* category touches.
C14_TrocaDeOrdem ==
    (resultado[2].feito /\ Len(localG) > 1 /\ Cabe) =>
        /\ resultado[2].res = "ok"
        /\ ~BlocosEmConflito(resultado[2].alocacoes)
        /\ \A k \in 1..Len(cursosG) :
              AssentosDoCurso(resultado[2].alocacoes, cursosG[k].curso_id)
                  = QtdAssentos(cursosG[k])
        /\ (resultado[1].feito /\ TrocaMudaFilas)
              => resultado[1].alocacoes # resultado[2].alocacoes

\* both calls returned, for a venue of two rows and an event that fits, and the
\* swap changed the rows of a category
C14_Witness ==
    /\ resultado[1].feito
    /\ resultado[2].feito
    /\ Len(localG) > 1
    /\ Cabe
    /\ TrocaMudaFilas

----------------------------------------------------------------------------
(* The engine on venues whose rows have 3 or 5 seats.                      *)

\* the seat counts of the rows
CapsExemplo == {3, 5}

NomesExemplo == { <<"1","A">>, <<"1","B">> }

DadosLocalExemplo ==
    UNION {[1..n -> [nome : NomesExemplo, quantidade_assentos : CapsExemplo,
                     ordem : {Nenhum}]] : n \in 1..2}

InitExemplo ==
    /\ InicioLocal
    /\ InicioAloc
    /\ InicioForm
    /\ InicioLaco
    /\ InicioDoc
    /\ InicioStatus
    /\ InicioReq
    /\ InicioDB
    /\ \E dados \in DadosLocalExemplo :
           LET r == CriarLocal(dados)
           IN  r.res = "ok" /\ localG = r.filas
    /\ cursosG \in ListasCursos
    /\ resultado = [c \in Chamadas |-> Pendente]

SpecExemplo == InitExemplo /\ [][NextGerar]_vars

\* the venue has the rows 1A of 5 seats and 1B of 3 seats, and the event asks
\* 4 seats for MED and then 4 seats for LAW
CasoExemplo ==
    /\ [i \in 1..Len(localG) |->
           <<FilasOrdenadas(localG)[i].nome,
             FilasOrdenadas(localG)[i].quantidade_assentos>>]
          = << <<(<<"1","A">>), 5>>, <<(<<"1","B">>), 3>> >>
    /\ cursosG = <<[curso_id |-> "MED", qtd_formandos |-> 2],
                   [curso_id |-> "LAW", qtd_formandos |-> 2]>>

\* C12: for rows 1A (5 seats) and 1B (3 seats) and the demands MED 4 seats,
\* LAW 4 seats, the call returns the blocks (MED, 1A, 1..4), (LAW, 1A, 5),
\* (LAW, 1B, 1..3); 8 seats are allocated and the occupancy rate is 100.
C12_ExemploMedLaw ==
    \A c \in DOMAIN resultado :
        (resultado[c].feito /\ CasoExemplo) =>
            /\ resultado[c].res = "ok"
            /\ resultado[c].alocacoes =
                  <<[curso_id |-> "MED", fila_nome |-> <<"1","A">>,
                     assentos |-> <<1, 2, 3, 4>>],
                    [curso_id |-> "LAW", fila_nome |-> <<"1","A">>,
                     assentos |-> <<5>>],
                    [curso_id |-> "LAW", fila_nome |-> <<"1","B">>,
                     assentos |-> <<1, 2, 3>>]>>
            /\ TotalAssentosAlocados(resultado[c].alocacoes) = 8
            /\ TaxaOcupacao(TotalAssentos(localG), resultado[c].alocacoes)
                  = <<100, 1>>

\* a call returned for the venue and the event of the example
C12_Witness ==
    /\ CasoExemplo
    /\ \E c \in DOMAIN resultado :
          resultado[c].feito /\ Len(resultado[c].alocacoes) = 3

----------------------------------------------------------------------------
(* An Alocacao document built by hand and saved.                           *)

\* the largest number of blocks the document is given
MaxBlocos == 2

\* categories, rows and seat lists blocks are added with
CursosBloco == {"MED", "LAW"}

FilasBloco == { <<"1","A">>, <<"1","B">> }

ListasAssentos == { <<>>, <<1>>, <<2, 1, 2>> }

InitAloc ==
    InicioLocal /\ InicioGerar /\ InicioAloc /\ InicioDB /\ InicioForm /\ InicioLaco
    /\ InicioDoc /\ InicioStatus /\ InicioReq

ChamarAdicionarAlocacaoFila ==
    \E curso \in CursosBloco, fila \in FilasBloco, assentos \in ListasAssentos :
        /\ Len(alocMem) < MaxBlocos
        /\ LET r == AdicionarAlocacaoFila(alocMem, curso, fila, assentos)
           IN  /\ alocMem' = r.alocacoes
               /\ resAloc' = r.res
        /\ UNCHANGED alocSalva
        /\ UNCHANGED <<varsLocal, varsGerar, varsDB, varsForm, varsLaco, varsDoc, varsStatus, varsReq>>

ChamarRemoverAlocacaoCurso ==
    \E curso \in CursosBloco :
        /\ alocMem' = RemoverAlocacaoCurso(alocMem, curso)
        /\ resAloc' = "ok"
        /\ UNCHANGED alocSalva
        /\ UNCHANGED <<varsLocal, varsGerar, varsDB, varsForm, varsLaco, varsDoc, varsStatus, varsReq>>

\* Alocacao.limpar_alocacoes
ChamarLimparAlocacoes ==
    /\ alocMem' = <<>>
    /\ resAloc' = "ok"
    /\ UNCHANGED alocSalva
    /\ UNCHANGED <<varsLocal, varsGerar, varsDB, varsForm, varsLaco, varsDoc, varsStatus, varsReq>>

\* Alocacao.save(): validation, then the write
SalvarAlocacao ==
    /\ LET r == AlocacaoSave(alocMem)
       IN  /\ resAloc' = (IF r.res = "ok" THEN "salva" ELSE r.res)
           /\ alocMem' = r.alocacoes
           /\ alocSalva' = IF r.res = "ok"
                           THEN [existe |-> TRUE, alocacoes |-> r.alocacoes]
                           ELSE alocSalva
    /\ UNCHANGED <<varsLocal, varsGerar, varsDB, varsForm, varsLaco, varsDoc, varsStatus, varsReq>>

NextAloc ==
    \/ ChamarAdicionarAlocacaoFila
    \/ ChamarRemoverAlocacaoCurso
    \/ ChamarLimparAlocacoes
    \/ SalvarAlocacao

SpecAloc == InitAloc /\ [][NextAloc]_vars

\* C2: the accept path rejects every allocation in which a (row, seat) pair is
\* in two blocks, whether of one category or of two: an allocation that save()
\* accepted, and the persisted one, never hold a seat twice.
C2_SemAssentoRepetido ==
    /\ (resAloc = "salva" => ~BlocosEmConflito(alocMem))
    /\ (alocSalva.existe => ~BlocosEmConflito(alocSalva.alocacoes))

\* the rows of the venue the Alocacao document refers to: 1A and 1B, one seat
\* each
LocalDaAlocacao ==
    CriarLocal(<<[nome |-> <<"1","A">>, quantidade_assentos |-> 1, ordem |-> Nenhum],
                 [nome |-> <<"1","B">>, quantidade_assentos |-> 1, ordem |-> Nenhum]>>).filas

\* the seats of a block are within 1..capacity of the venue row it names
DentroDaFila(b) ==
    \E i \in 1..Len(LocalDaAlocacao) :
        /\ LocalDaAlocacao[i].nome = b.fila_nome
        /\ \A k \in 1..Len(b.assentos) :
              b.assentos[k] \in 1..LocalDaAlocacao[i].quantidade_assentos

\* C18: every block of the allocation holds pairwise distinct seat numbers, in
\* ascending order, all within 1..capacity of the block's row; also for blocks
\* added through adicionar_alocacao_fila.
C18_BlocosBemFormados ==
    \A i \in 1..Len(alocMem) :
        /\ \A k \in 1..(Len(alocMem[i].assentos) - 1) :
              alocMem[i].assentos[k] < alocMem[i].assentos[k + 1]
        /\ DentroDaFila(alocMem[i])

\* C19: an allocation that was generated and saved is not changed in part: a
\* step that changes the blocks of the saved allocation discards all of them;
\* none removes or adds the blocks of one category and keeps the others.
C19_SemMutacaoParcial ==
    [][(alocSalva.existe /\ alocMem = alocSalva.alocacoes /\ alocMem' # alocMem)
          => alocMem' = <<>>]_vars

\* C25: for an allocation that validation accepted, total_assentos_alocados
\* is the number of distinct (row, seat) pairs the allocation occupies, and so,
\* when every block lies within the capacity of its row, it does not exceed
\* the total capacity of the venue.
C25_TotalSemRepeticao ==
    resAloc = "salva" =>
        /\ TotalAssentosAlocados(alocMem) = Cardinality(Pares(alocMem))
        /\ (\A i \in 1..Len(alocMem) : DentroDaFila(alocMem[i]))
              => TotalAssentosAlocados(alocMem) <= TotalAssentos(LocalDaAlocacao)

----------------------------------------------------------------------------
(* What is read from an Alocacao document: the occupancy rate, the seat    *)
(* total, the range rendering of each block and the summary by category.   *)
(* A rate is the fraction <<numerator, denominator>> in lowest terms.      *)

\* the venue with the row 1A of three seats
LocalDeTresAssentos ==
    CriarLocal(<<[nome |-> <<"1","A">>, quantidade_assentos |-> 3,
                  ordem |-> Nenhum]>>).filas

\* Alocacao.local of the document read: no venue, a venue without rows, or a
\* stored venue
LocaisConsulta ==
    {Nenhum, Algum(<<>>), Algum(LocalDaAlocacao), Algum(LocalDeTresAssentos)}

\* the seat lists adicionar_alocacao_fila is called with
ListasConsulta == { <<1>>, <<2, 1, 2>>, <<3, 1, 3>>, <<3, 1, 2>> }

InitConsulta ==
    /\ InicioLocal /\ InicioGerar /\ InicioAloc /\ InicioDB /\ InicioForm
    /\ InicioLaco /\ InicioStatus /\ InicioReq
    /\ localA \in LocaisConsulta
    /\ consulta = [feita |-> FALSE]

\* Alocacao.adicionar_alocacao_fila on the document that is read later
AdicionarBlocoAoDocumento ==
    \E curso \in CursosBloco, fila \in FilasBloco, assentos \in ListasConsulta :
        /\ Len(alocMem) < MaxBlocos
        /\ \E r \in {AdicionarAlocacaoFila(alocMem, curso, fila, assentos)} :
               /\ alocMem' = r.alocacoes
               /\ resAloc' = r.res
        /\ UNCHANGED <<alocSalva, varsDoc>>
        /\ UNCHANGED <<varsLocal, varsGerar, varsDB, varsForm, varsLaco,
                       varsStatus, varsReq>>

\* the properties and queries of the document are read: taxa_ocupacao,
\* total_assentos_alocados, range_assentos of every block and
\* get_resumo_por_curso, of the blocks the document holds at this moment
ConsultarDocumento ==
    /\ consulta' =
           [feita                   |-> TRUE,
            alocacoes               |-> alocMem,
            total_assentos_alocados |-> TotalAssentosAlocados(alocMem),
            taxa_ocupacao           |-> TaxaOcupacaoDoDocumento(localA, alocMem),
            range_assentos          |-> [i \in 1..Len(alocMem) |->
                                            RangeAssentos(alocMem[i].assentos)],
            resumo_por_curso        |-> GetResumoPorCurso(alocMem)]
    /\ UNCHANGED <<localA, varsAloc>>
    /\ UNCHANGED <<varsLocal, varsGerar, varsDB, varsForm, varsLaco,
                   varsStatus, varsReq>>

NextConsulta == AdicionarBlocoAoDocumento \/ ConsultarDocumento

SpecConsulta == InitConsulta /\ [][NextConsulta]_vars

\* the capacity of the venue of the document read, 0 without a venue
CapacidadeDoLocalLido ==
    IF localA = Nenhum THEN 0 ELSE TotalAssentos(localA[1])

\* C21: the occupancy rate read from an allocation is the number of seats its
\* blocks hold, divided by the total capacity of the venue, times 100; it is
\* 0 when the venue has no capacity or there is no venue.
C21_TaxaOcupacao ==
    consulta.feita =>
        LET n    == Len(AssentosJuntos(consulta.alocacoes))
            taxa == consulta.taxa_ocupacao
        IN  /\ consulta.total_assentos_alocados = n
            /\ IF CapacidadeDoLocalLido = 0
               THEN taxa = <<0, 1>>
               ELSE /\ taxa[2] > 0
                    /\ taxa[1] * CapacidadeDoLocalLido = n * 100 * taxa[2]

\* a rate that is not a whole number was read: two seats of a venue of three
C21_Witness ==
    /\ consulta.feita
    /\ CapacidadeDoLocalLido = 3
    /\ Len(AssentosJuntos(consulta.alocacoes)) = 2
    /\ consulta.taxa_ocupacao = <<200, 3>>

\* the seat numbers of a list are one run lo, lo + 1, ..., hi of two or more
\* seats, none of them listed twice
UmaCorrida(assentos) ==
    /\ Len(assentos) >= 2
    /\ Cardinality(Elementos(assentos)) = Len(assentos)
    /\ Elementos(assentos)
           = PrimeiroAssento(assentos)..UltimoAssento(assentos)

\* C22: the range rendering of a block is "first-last" exactly when its seat
\* numbers are one contiguous run of two or more seats, the single number
\* for a block of one seat, and the comma-separated list of the seat numbers
\* otherwise, for every seat list a block carries.
C22_RangeAssentos ==
    consulta.feita =>
        \A i \in 1..Len(consulta.alocacoes) :
            LET assentos == consulta.alocacoes[i].assentos
                range    == consulta.range_assentos[i]
                corrido  == Str(PrimeiroAssento(assentos)) \o <<"-">>
                               \o Str(UltimoAssento(assentos))
            IN  /\ assentos # <<>>
                /\ (range = corrido) <=> UmaCorrida(assentos)
                /\ Len(assentos) = 1 => range = Str(assentos[1])
                /\ (Len(assentos) >= 2 /\ ~UmaCorrida(assentos))
                      => range = JoinVirgula(assentos)

\* a document was read that holds a block given as [3, 1, 3], rendered
\* "1, 3", and a block given as [3, 1, 2], rendered "1-3"
C22_Witness ==
    /\ consulta.feita
    /\ Len(consulta.alocacoes) = 2
    /\ consulta.alocacoes[1].assentos = <<1, 3>>
    /\ consulta.range_assentos[1] = <<"1", ",", " ", "3">>
    /\ consulta.alocacoes[2].assentos = <<1, 2, 3>>
    /\ consulta.range_assentos[2] = <<"1", "-", "3">>

----------------------------------------------------------------------------
(* Formatura and Curso documents.                                          *)

\* FormaturaCurso.clean
FormaturaCursoCleanOk(c) == c.curso_id # <<>> /\ c.qtd_formandos > 0

\* Formatura.adicionar_curso: the demand list and the outcome of the call
AdicionarCurso(cs, curso_id, qtd_formandos) ==
    LET novo == [curso_id |-> curso_id, qtd_formandos |-> qtd_formandos]
    IN  IF \E i \in 1..Len(cs) : cs[i].curso_id = curso_id
        THEN [cursos |-> cs, res |-> "CursoDuplicado"]
        ELSE IF ~FormaturaCursoCleanOk(novo)
             THEN [cursos |-> cs, res |-> "CursoInvalido"]
             ELSE [cursos |-> Append(cs, novo), res |-> "ok"]

\* Formatura.remover_curso
RemoverCurso(cs, curso_id) == SelectSeq(cs, LAMBDA c : c.curso_id # curso_id)

\* Formatura.atualizar_curso: the first demand of the category gets the new
\* count and is then cleaned; the count is assigned before clean() can raise
AtualizarCurso(cs, curso_id, qtd_formandos) ==
    IF ~\E i \in 1..Len(cs) : cs[i].curso_id = curso_id
    THEN [cursos |-> cs, res |-> "CursoNaoEncontrado"]
    ELSE LET i == CHOOSE k \in 1..Len(cs) :
                     /\ cs[k].curso_id = curso_id
                     /\ \A j \in 1..(k - 1) : cs[j].curso_id # curso_id
             c == [cs[i] EXCEPT !.qtd_formandos = qtd_formandos]
         IN  [cursos |-> [cs EXCEPT ![i] = c],
              res    |-> IF FormaturaCursoCleanOk(c) THEN "ok" ELSE "CursoInvalido"]

\* Formatura.clean, the demand checks: at least one demand, no category twice
FormaturaCleanOk(cs) ==
    /\ cs # <<>>
    /\ \A i, j \in 1..Len(cs) : i # j => cs[i].curso_id # cs[j].curso_id

\* Curso.clean for a document that has only a name: at least 3 characters
CursoCleanOk(nome) == Len(Strip(nome)) >= 3

----------------------------------------------------------------------------
(* PlanilhaService._processar_cursos.                                      *)

\* the rows kept: a name, and a count greater than 0; the name upper-cased
\* and stripped
RECURSIVE ProcessarCursos(_)
ProcessarCursos(linhas) ==
    IF linhas = <<>> THEN <<>>
    ELSE LET l == linhas[1]
         IN  (IF Strip(l.nome) # <<>> /\ l.qtd > 0
              THEN <<[nome |-> Strip(Upper(Strip(l.nome))), qtd_formandos |-> l.qtd]>>
              ELSE <<>>)
             \o ProcessarCursos(Tail(linhas))

----------------------------------------------------------------------------
(* processar_planilha: POST /api/planilha/processar.                       *)
(* db is the record of the stored documents: cursos, formaturas, alocacoes *)
(* and proxId.  The category id of a Curso document is modelled by its     *)
(* name (names are unique among the stored documents).                     *)

Resposta(codigo, necessarios, disponiveis) ==
    [status |-> codigo, assentos_necessarios |-> necessarios,
     assentos_disponiveis |-> disponiveis]

\* lines 196-207: each category is looked up by name and created when absent;
\* a Curso whose save() fails validation ends the loop with the error
RECURSIVE BuscarOuCriarCursos(_, _)
BuscarOuCriarCursos(cdb, cursos) ==
    IF cursos = <<>> THEN [cursos |-> cdb, res |-> "ok"]
    ELSE IF cursos[1].nome \in cdb
         THEN BuscarOuCriarCursos(cdb, Tail(cursos))
         ELSE IF ~CursoCleanOk(cursos[1].nome)
              THEN [cursos |-> cdb, res |-> "ErroValidacao"]
              ELSE BuscarOuCriarCursos(cdb \cup {cursos[1].nome}, Tail(cursos))

\* lines 217-221: adicionar_curso for every category of the spreadsheet
RECURSIVE AdicionarCursos(_, _)
AdicionarCursos(cs, cursos) ==
    IF cursos = <<>> THEN [cursos |-> cs, res |-> "ok"]
    ELSE LET r == AdicionarCurso(cs, cursos[1].nome, cursos[1].qtd_formandos)
         IN  IF r.res # "ok" THEN r ELSE AdicionarCursos(r.cursos, Tail(cursos))

\* the seats a spreadsheet asks for
RECURSIVE TotalPedido(_)
TotalPedido(cursos) ==
    IF cursos = <<>> THEN 0
    ELSE cursos[1].qtd_formandos * 2 + TotalPedido(Tail(cursos))

\* lines 209-280: the event is created and saved, the capacity is checked, the
\* allocation is generated and saved.
\* delOk: what delete(hard_delete=True) does.  Alocacao has no SoftDeleteMixin,
\* and in Formatura(BaseModel, SoftDeleteMixin) the method found first is
\* Document.delete, which takes its keywords as write-concern options: the
\* call either deletes the document (delOk) or raises on the unknown option,
\* and then the handler's "except Exception" answers 500.
CriarFormaturaEAlocar(db, fs, chave, cursos, delOk) ==
    LET r     == AdicionarCursos(<<>>, cursos)
        id    == db.proxId
        nova  == [id |-> id, chave |-> chave, cursos |-> r.cursos,
                  alocacao_gerada |-> FALSE]
        salva == [db EXCEPT !.formaturas = @ \cup {nova}, !.proxId = id + 1]
        nec   == TotalAssentosNecessarios(r.cursos)
        g     == GerarAlocacaoSequencial(fs, r.cursos)
        sv    == AlocacaoSave(g.alocacoes)
    IN  IF r.res # "ok" \/ ~FormaturaCleanOk(r.cursos)
        THEN [db |-> db, resposta |-> Resposta("ErroValidacao", 0, 0),
              verificou |-> FALSE]
        ELSE IF ~CapacidadeSuficiente(fs, r.cursos)
        THEN IF delOk
             THEN [db |-> [salva EXCEPT !.formaturas = @ \ {nova}],
                   resposta |-> Resposta("CapacidadeInsuficiente", nec,
                                         TotalAssentos(fs)),
                   verificou |-> TRUE]
             ELSE [db |-> salva, resposta |-> Resposta("ErroInterno", 0, 0),
                   verificou |-> TRUE]
        ELSE IF g.res # "ok" \/ sv.res # "ok"
        THEN [db |-> salva, resposta |-> Resposta("ErroValidacao", 0, 0),
              verificou |-> TRUE]
        ELSE [db |-> [salva EXCEPT
                        !.formaturas = (@ \ {nova})
                            \cup {[nova EXCEPT !.alocacao_gerada = TRUE]},
                        !.alocacoes = @ \cup {[formatura |-> id,
                                               alocacoes |-> sv.alocacoes]}],
              resposta |-> Resposta("Criada", nec, TotalAssentos(fs)),
              verificou |-> TRUE]

\* processar_planilha, from the venue lookup on
ProcessarPlanilha(db, fs, localExiste, chave, linhas, sobrescrever, delOk) ==
    LET cursos     == ProcessarCursos(linhas)
        existentes == {f \in db.formaturas : f.chave = chave}
        antiga     == CHOOSE f \in existentes : \A g \in existentes : g.id <= f.id
        alocAntiga == {a \in db.alocacoes : a.formatura = antiga.id}
        semAntiga  == [db EXCEPT !.formaturas = @ \ {antiga},
                                 !.alocacoes = @ \ alocAntiga]
        base       == IF existentes # {} THEN semAntiga ELSE db
        cr         == BuscarOuCriarCursos(base.cursos, cursos)
        comCursos  == [base EXCEPT !.cursos = cr.cursos]
    IN  IF ~localExiste
        THEN [db |-> db, resposta |-> Resposta("LocalNaoEncontrado", 0, 0),
              verificou |-> FALSE]
        ELSE IF cursos = <<>>
        THEN [db |-> db, resposta |-> Resposta("SemCursos", 0, 0),
              verificou |-> FALSE]
        ELSE IF existentes # {} /\ ~sobrescrever
        THEN [db |-> db, resposta |-> Resposta("JaExistia", 0, 0),
              verificou |-> FALSE]
        ELSE IF existentes # {} /\ ~delOk
        THEN [db |-> db, resposta |-> Resposta("ErroInterno", 0, 0),
              verificou |-> FALSE]
        ELSE IF cr.res # "ok"
        THEN [db |-> comCursos, resposta |-> Resposta(cr.res, 0, 0),
              verificou |-> FALSE]
        ELSE CriarFormaturaEAlocar(comCursos, fs, chave, cursos, delOk)

----------------------------------------------------------------------------
(* The handler serving requests one after the other.                       *)

\* the largest number of spreadsheet rows and of events ever created
MaxLinhas == 2

MaxFormaturas == 2

\* the venues in the database, as criar_local built them
LocaisPlanilha ==
    { <<[nome |-> <<"1","a">>, quantidade_assentos |-> 3, ordem |-> Nenhum]>>,
      <<[nome |-> <<"1","B">>, quantidade_assentos |-> 2, ordem |-> Nenhum],
        [nome |-> <<"1","A">>, quantidade_assentos |-> 3, ordem |-> Nenhum]>> }

\* the (name, date) of the spreadsheet's first line
Chaves == {"Formatura FAMED 2025-08-26"}

\* the rows a spreadsheet is made of: category name and count as typed
LinhasPlanilha ==
    { [nome |-> <<"M","E","D">>, qtd |-> 1],
      [nome |-> <<"m","e","d">>, qtd |-> 2],
      [nome |-> <<"L","A","W"," ">>, qtd |-> 1],
      [nome |-> <<"T","I">>, qtd |-> 1],
      [nome |-> <<"E","N","G">>, qtd |-> 0] }

Planilhas == UNION {[1..n -> LinhasPlanilha] : n \in 0..MaxLinhas}

\* the requests: one whose local_id names no venue, and those for the venue
Pedidos ==
    {[local_existe |-> FALSE, chave |-> c, linhas |-> <<>>, sobrescrever |-> FALSE] :
        c \in Chaves}
    \cup [local_existe : {TRUE}, chave : Chaves, linhas : Planilhas,
          sobrescrever : BOOLEAN]

Init ==
    /\ InicioLocal
    /\ InicioGerar
    /\ InicioAloc
    /\ InicioForm
    /\ InicioLaco
    /\ InicioDoc
    /\ InicioStatus
    /\ InicioReq
    /\ \E dados \in LocaisPlanilha :
           LET r == CriarLocal(dados)
           IN  r.res = "ok" /\ localP = r.filas
    /\ cursosDB = {}
    /\ formaturasDB = {}
    /\ alocacoesDB = {}
    /\ proxId = 1
    /\ deleteAceita \in BOOLEAN
    /\ pedido = [total |-> 0, verificou |-> FALSE]
    /\ resposta = Resposta("nenhuma", 0, 0)

\* one request, from the first line of the handler to its response
Processar ==
    \E p \in Pedidos :
        /\ proxId <= MaxFormaturas
        /\ LET r == ProcessarPlanilha(
                        [cursos |-> cursosDB, formaturas |-> formaturasDB,
                         alocacoes |-> alocacoesDB, proxId |-> proxId],
                        localP, p.local_existe, p.chave, p.linhas,
                        p.sobrescrever, deleteAceita)
           IN  /\ cursosDB' = r.db.cursos
               /\ formaturasDB' = r.db.formaturas
               /\ alocacoesDB' = r.db.alocacoes
               /\ proxId' = r.db.proxId
               /\ resposta' = r.resposta
               /\ pedido' = [total |-> TotalPedido(ProcessarCursos(p.linhas)),
                             verificou |-> r.verificou]
        /\ UNCHANGED <<localP, deleteAceita>>
        /\ UNCHANGED <<varsLocal, varsGerar, varsAloc, varsForm, varsLaco, varsDoc, varsStatus, varsReq>>

Next == Processar

Spec == Init /\ [][Next]_vars

----------------------------------------------------------------------------
(* Properties of processar_planilha.                                       *)

\* the request just served asks for more seats than the venue has
PedidoExcede == pedido.verificou /\ pedido.total > TotalAssentos(localP)

\* the allocations stored for the event the request just served created
AlocacoesDoPedido == {a \in alocacoesDB : a.formatura = proxId - 1}

\* C4: a request whose demand reaches the capacity check is refused with
\* InsufficientCapacity exactly when the seats demanded exceed the sum of the
\* row capacities; the refusal reports the seats required and the seats
\* available, and no Allocation is stored for the request.
C4_CapacidadeInsuficiente ==
    /\ PedidoExcede => resposta.status = "CapacidadeInsuficiente"
    /\ resposta.status = "CapacidadeInsuficiente" =>
           /\ PedidoExcede
           /\ resposta.assentos_necessarios = pedido.total
           /\ resposta.assentos_disponiveis = TotalAssentos(localP)
           /\ AlocacoesDoPedido = {}

\* the responses that are errors
RespostasDeErro ==
    {"LocalNaoEncontrado", "SemCursos", "ErroValidacao",
     "CapacidadeInsuficiente", "ErroInterno"}

\* C5: a request that ends in an error leaves the stored categories, events
\* and allocations exactly as they were before it, also when sobrescrever was
\* asked and an earlier event existed.
C5_TudoOuNada ==
    [][resposta'.status \in RespostasDeErro =>
          /\ cursosDB' = cursosDB
          /\ formaturasDB' = formaturasDB
          /\ alocacoesDB' = alocacoesDB]_vars

----------------------------------------------------------------------------
(* A Formatura in memory under its demand operations, and the engine       *)
(* called on it.                                                           *)

\* category ids and counts as callers write them
IdsCursoF == { <<"M","E","D">>, <<"L","A","W">> }

QtdsF == {-1, 0, 1, 2}

\* the rows of the event's venue: one row, 1A, of 3 seats
LocalFormatura ==
    CriarLocal(<<[nome |-> <<"1","A">>, quantidade_assentos |-> 3,
                  ordem |-> Nenhum]>>).filas

ChamarAdicionarCurso ==
    \E curso_id \in IdsCursoF, qtd \in QtdsF :
        /\ Len(cursosF) < MaxCursos
        /\ LET r == AdicionarCurso(cursosF, curso_id, qtd)
           IN  /\ cursosF' = r.cursos
               /\ resForm' = r.res
        /\ opForm' = "adicionar_curso"
        /\ UNCHANGED <<varsLocal, varsGerar, varsAloc, varsDB, varsLaco, varsDoc, varsStatus, varsReq>>

ChamarAtualizarCurso ==
    \E curso_id \in IdsCursoF, qtd \in QtdsF :
        /\ LET r == AtualizarCurso(cursosF, curso_id, qtd)
           IN  /\ cursosF' = r.cursos
               /\ resForm' = r.res
        /\ opForm' = "atualizar_curso"
        /\ UNCHANGED <<varsLocal, varsGerar, varsAloc, varsDB, varsLaco, varsDoc, varsStatus, varsReq>>

ChamarRemoverCurso ==
    \E curso_id \in IdsCursoF :
        /\ cursosF' = RemoverCurso(cursosF, curso_id)
        /\ resForm' = "ok"
        /\ opForm' = "remover_curso"
        /\ UNCHANGED <<varsLocal, varsGerar, varsAloc, varsDB, varsLaco, varsDoc, varsStatus, varsReq>>

\* _gerar_alocacao_sequencial(formatura) on the event as it is in memory
ChamarGerarEmMemoria ==
    /\ resForm' = GerarAlocacaoSequencial(LocalFormatura, cursosF).res
    /\ opForm' = "gerar"
    /\ UNCHANGED cursosF
    /\ UNCHANGED <<varsLocal, varsGerar, varsAloc, varsDB, varsLaco, varsDoc, varsStatus, varsReq>>

NextFormatura ==
    \/ ChamarAdicionarCurso
    \/ ChamarAtualizarCurso
    \/ ChamarRemoverCurso
    \/ ChamarGerarEmMemoria

InitFormatura ==
    InicioLocal /\ InicioGerar /\ InicioAloc /\ InicioDB /\ InicioForm /\ InicioLaco
    /\ InicioDoc /\ InicioStatus /\ InicioReq

SpecFormatura == InitFormatura /\ [][NextFormatura]_vars

\* C17: a demand with a count that is not greater than 0, or a second demand
\* of a category, is rejected; so after any sequence of adicionar_curso,
\* atualizar_curso and remover_curso the demand list of an event that reaches
\* _gerar_alocacao_sequencial has pairwise distinct categories and only
\* positive counts.
C17_DemandasValidas ==
    opForm = "gerar" =>
        /\ \A i, j \in 1..Len(cursosF) :
              i # j => cursosF[i].curso_id # cursosF[j].curso_id
        /\ \A i \in 1..Len(cursosF) : cursosF[i].qtd_formandos > 0

----------------------------------------------------------------------------
(* The life cycle of a Formatura held in memory: status and                *)
(* alocacao_gerada, next to the demand operations on the same document.    *)

\* Formatura.confirmar
ChamarConfirmar ==
    /\ status' = IF status = "planejamento" THEN "confirmada" ELSE status
    /\ opStatus' = "confirmar"
    /\ UNCHANGED alocacao_gerada
    /\ UNCHANGED <<varsLocal, varsGerar, varsAloc, varsDB, varsForm, varsLaco,
                   varsDoc, varsReq>>

\* Formatura.cancelar
ChamarCancelar ==
    /\ IF status \in {"planejamento", "confirmada"}
       THEN status' = "cancelada" /\ alocacao_gerada' = FALSE
       ELSE UNCHANGED <<status, alocacao_gerada>>
    /\ opStatus' = "cancelar"
    /\ UNCHANGED <<varsLocal, varsGerar, varsAloc, varsDB, varsForm, varsLaco,
                   varsDoc, varsReq>>

\* Formatura.marcar_como_realizada
ChamarMarcarComoRealizada ==
    /\ status' = IF status = "confirmada" THEN "realizada" ELSE status
    /\ opStatus' = "marcar_como_realizada"
    /\ UNCHANGED alocacao_gerada
    /\ UNCHANGED <<varsLocal, varsGerar, varsAloc, varsDB, varsForm, varsLaco,
                   varsDoc, varsReq>>

\* Formatura.marcar_alocacao_gerada
ChamarMarcarAlocacaoGerada ==
    /\ alocacao_gerada' = TRUE
    /\ opStatus' = "marcar_alocacao_gerada"
    /\ UNCHANGED status
    /\ UNCHANGED <<varsLocal, varsGerar, varsAloc, varsDB, varsForm, varsLaco,
                   varsDoc, varsReq>>

NextCiclo ==
    \/ ChamarConfirmar
    \/ ChamarCancelar
    \/ ChamarMarcarComoRealizada
    \/ ChamarMarcarAlocacaoGerada
    \/ ChamarAdicionarCurso
    \/ ChamarRemoverCurso

SpecCiclo == InitFormatura /\ [][NextCiclo]_vars

\* C27: after any sequence of confirmar, cancelar, marcar_como_realizada and
\* marcar_alocacao_gerada, an event whose status is 'cancelada' does not have
\* alocacao_gerada set, and no operation changes the status once it is
\* 'cancelada' or 'realizada'.
C27_CicloDeVida ==
    /\ [](status = "cancelada" => ~alocacao_gerada)
    /\ [][(status \in {"cancelada", "realizada"}) => (status' = status)]_vars

----------------------------------------------------------------------------
(* One call of _gerar_alocacao_sequencial, one loop iteration per step.    *)
(* cursor.pc is "for" before the for loop takes its next demand, "while"   *)
(* before the while condition is evaluated, "fim" after the return (or     *)
(* after an exception left the function).                                  *)

InitLaco ==
    /\ InicioLocal
    /\ InicioDoc
    /\ InicioStatus
    /\ InicioReq
    /\ InicioAloc
    /\ InicioForm
    /\ InicioDB
    /\ \E dados \in DadosLocalExemplo :
           LET r == CriarLocal(dados)
           IN  r.res = "ok" /\ localG = r.filas
    /\ cursosG \in ListasCursos
    /\ resultado = [c \in Chamadas |-> Pendente]
    /\ cursor = [pc |-> "for", k |-> 1, alocacoes |-> <<>>,
                 assentos_necessarios |-> 0, assento_atual |-> 1,
                 fila_index |-> 0, res |-> "ok"]

\* the local variables of the function, as PassoWhile takes them
VariaveisLocais ==
    [alocacoes |-> cursor.alocacoes,
     assentos_necessarios |-> cursor.assentos_necessarios,
     assento_atual |-> cursor.assento_atual,
     fila_index |-> cursor.fila_index, res |-> cursor.res]

\* the condition of the while loop, line 69
CondicaoWhile ==
    /\ cursor.assentos_necessarios > 0
    /\ cursor.fila_index < Len(FilasOrdenadas(localG))

\* line 66-67: the for loop takes the next demand
EntrarCurso ==
    /\ cursor.pc = "for"
    /\ cursor.k <= Len(cursosG)
    /\ cursor' = [cursor EXCEPT !.pc = "while",
                     !.assentos_necessarios = QtdAssentos(cursosG[cursor.k])]
    /\ UNCHANGED <<varsLocal, varsGerar, varsAloc, varsDB, varsForm, varsDoc,
                   varsStatus, varsReq>>

\* lines 70-86: one execution of the body of the while loop
IterarWhile ==
    /\ cursor.pc = "while"
    /\ CondicaoWhile
    /\ \E fo \in {FilasOrdenadas(localG)}, antes \in {VariaveisLocais} :
       \E st \in {PassoWhile(fo, antes, cursosG[cursor.k].curso_id)} :
           cursor' = [pc |-> IF st.res = "ok" THEN "while" ELSE "fim",
                      k |-> cursor.k, alocacoes |-> st.alocacoes,
                      assentos_necessarios |-> st.assentos_necessarios,
                      assento_atual |-> st.assento_atual,
                      fila_index |-> st.fila_index, res |-> st.res]
    /\ UNCHANGED <<varsLocal, varsGerar, varsAloc, varsDB, varsForm, varsDoc,
                   varsStatus, varsReq>>

\* line 69: the while condition is false, the for loop goes on
SairWhile ==
    /\ cursor.pc = "while"
    /\ ~CondicaoWhile
    /\ cursor' = [cursor EXCEPT !.pc = "for", !.k = @ + 1]
    /\ UNCHANGED <<varsLocal, varsGerar, varsAloc, varsDB, varsForm, varsDoc,
                   varsStatus, varsReq>>

\* line 88: no demand is left, the function returns
Retornar ==
    /\ cursor.pc = "for"
    /\ cursor.k > Len(cursosG)
    /\ cursor' = [cursor EXCEPT !.pc = "fim"]
    /\ UNCHANGED <<varsLocal, varsGerar, varsAloc, varsDB, varsForm, varsDoc,
                   varsStatus, varsReq>>

NextLaco == EntrarCurso \/ IterarWhile \/ SairWhile \/ Retornar

\* the function runs on: a step that can be taken is taken
SpecLaco == InitLaco /\ [][NextLaco]_vars /\ WF_vars(NextLaco)

\* C20: every call reaches its end, and every execution of the loop body
\* reserves at least one seat (or ends the call).
C20_Termina ==
    /\ <>(cursor.pc = "fim")
    /\ [][IterarWhile =>
             \/ cursor'.pc = "fim"
             \/ TotalAssentosAlocados(cursor'.alocacoes)
                   > TotalAssentosAlocados(cursor.alocacoes)]_vars

\* a call returned after at least three executions of the loop body, with the
\* blocks _gerar_alocacao_sequencial returns for the event
C20_Witness ==
    /\ cursor.pc = "fim"
    /\ Len(cursor.alocacoes) >= 3
    /\ cursor.alocacoes = GerarAlocacaoSequencial(localG, cursosG).alocacoes

----------------------------------------------------------------------------
(* Two /api/planilha/processar requests for the same spreadsheet and venue *)
(* served at the same time.  Each request is a thread of the handler; a    *)
(* step is one database operation together with the in-memory code that    *)
(* precedes it.  req[i].pc names the operation request i is about to do,   *)
(* "fim" after its response.  A document id 0 stands for None.  The        *)
(* spreadsheets here have a date and at least one category.                *)

Requisicoes == {1, 2}

\* the spreadsheet both requests name: one category, or two
PlanilhasReq ==
    { <<[nome |-> <<"M","E","D">>, qtd |-> 1]>>,
      <<[nome |-> <<"M","E","D">>, qtd |-> 1],
        [nome |-> <<"L","A","W"," ">>, qtd |-> 1]>> }

\* the (name, date) both requests read from the spreadsheet
ChaveReq == "Formatura FAMED 2025-08-26"

\* the locals of a request at the start of the handler
ReqInicial(linhas, sobrescrever) ==
    [pc |-> "buscar", linhas |-> linhas, sobrescrever |-> sobrescrever,
     formatura_existente |-> 0, alocacao_antiga |-> 0, formatura |-> 0,
     cursos |-> <<>>, resposta |-> "nenhuma"]

InitReq ==
    /\ InicioLocal
    /\ InicioGerar
    /\ InicioAloc
    /\ InicioForm
    /\ InicioLaco
    /\ InicioDoc
    /\ InicioStatus
    /\ \E dados \in LocaisPlanilha :
           LET r == CriarLocal(dados)
           IN  r.res = "ok" /\ localP = r.filas
    /\ cursosDB = {}
    /\ formaturasDB = {}
    /\ alocacoesDB = {}
    /\ proxId = 1
    /\ deleteAceita \in BOOLEAN
    /\ pedido = [total |-> 0, verificou |-> FALSE]
    /\ resposta = Resposta("nenhuma", 0, 0)
    /\ \E linhas \in PlanilhasReq, sobrescrever \in [Requisicoes -> BOOLEAN] :
           req = [i \in Requisicoes |-> ReqInicial(linhas, sobrescrever[i])]

\* request i answers
Responde(i, codigo) == [req EXCEPT ![i].pc = "fim", ![i].resposta = codigo]

\* lines 136-141: Formatura.objects(nome, data, local, ativo=True).first();
\* no order is asked for, so any of the matching documents can come first
BuscarFormaturaExistente(i) ==
    /\ req[i].pc = "buscar"
    /\ LET existentes == {f \in formaturasDB : f.chave = ChaveReq}
       IN  IF existentes = {}
           THEN req' = [req EXCEPT ![i].pc = "cursos"]
           ELSE \E f \in existentes :
                    req' = [req EXCEPT
                               ![i].formatura_existente = f.id,
                               ![i].pc = IF req[i].sobrescrever
                                         THEN "buscar_alocacao_antiga"
                                         ELSE "ja_existia"]
    /\ UNCHANGED <<varsLocal, varsGerar, varsAloc, varsDB, varsForm, varsLaco,
                   varsDoc, varsStatus>>

\* lines 143-183: the event exists and sobrescrever is false; its allocation
\* is read and the existing data is returned
ResponderJaExistia(i) ==
    /\ req[i].pc = "ja_existia"
    /\ req' = Responde(i, "JaExistia")
    /\ UNCHANGED <<varsLocal, varsGerar, varsAloc, varsDB, varsForm, varsLaco,
                   varsDoc, varsStatus>>

\* line 186: Alocacao.objects(formatura=formatura_existente).first()
BuscarAlocacaoAntiga(i) ==
    /\ req[i].pc = "buscar_alocacao_antiga"
    /\ req' = IF \E a \in alocacoesDB : a.formatura = req[i].formatura_existente
              THEN [req EXCEPT ![i].alocacao_antiga = req[i].formatura_existente,
                               ![i].pc = "apagar_alocacao_antiga"]
              ELSE [req EXCEPT ![i].pc = "apagar_formatura_existente"]
    /\ UNCHANGED <<varsLocal, varsGerar, varsAloc, varsDB, varsForm, varsLaco,
                   varsDoc, varsStatus>>

\* line 188: alocacao_antiga.delete(hard_delete=True)
ApagarAlocacaoAntiga(i) ==
    /\ req[i].pc = "apagar_alocacao_antiga"
    /\ IF deleteAceita
       THEN /\ alocacoesDB' = {a \in alocacoesDB :
                                  a.formatura # req[i].alocacao_antiga}
            /\ req' = [req EXCEPT ![i].pc = "apagar_formatura_existente"]
       ELSE /\ UNCHANGED alocacoesDB
            /\ req' = Responde(i, "ErroInterno")
    /\ UNCHANGED <<localP, cursosDB, formaturasDB, proxId, deleteAceita, pedido,
                   resposta>>
    /\ UNCHANGED <<varsLocal, varsGerar, varsAloc, varsForm, varsLaco, varsDoc,
                   varsStatus>>

\* line 190: formatura_existente.delete(hard_delete=True)
ApagarFormaturaExistente(i) ==
    /\ req[i].pc = "apagar_formatura_existente"
    /\ IF deleteAceita
       THEN /\ formaturasDB' = {f \in formaturasDB :
                                   f.id # req[i].formatura_existente}
            /\ req' = [req EXCEPT ![i].pc = "cursos"]
       ELSE /\ UNCHANGED formaturasDB
            /\ req' = Responde(i, "ErroInterno")
    /\ UNCHANGED <<localP, cursosDB, alocacoesDB, proxId, deleteAceita, pedido,
                   resposta>>
    /\ UNCHANGED <<varsLocal, varsGerar, varsAloc, varsForm, varsLaco, varsDoc,
                   varsStatus>>

\* lines 196-207: the categories are looked up and created
BuscarOuCriarCursosDoPedido(i) ==
    /\ req[i].pc = "cursos"
    /\ \E cr \in {BuscarOuCriarCursos(cursosDB, ProcessarCursos(req[i].linhas))} :
           /\ cursosDB' = cr.cursos
           /\ req' = IF cr.res = "ok"
                     THEN [req EXCEPT ![i].pc = "salvar_formatura"]
                     ELSE Responde(i, cr.res)
    /\ UNCHANGED <<localP, formaturasDB, alocacoesDB, proxId, deleteAceita,
                   pedido, resposta>>
    /\ UNCHANGED <<varsLocal, varsGerar, varsAloc, varsForm, varsLaco, varsDoc,
                   varsStatus>>

\* lines 209-226: the Formatura is built and saved (an insert: the collection
\* has no unique index on nome, data, local), and the capacity is compared
SalvarFormaturaNova(i) ==
    /\ req[i].pc = "salvar_formatura"
    /\ \E r \in {AdicionarCursos(<<>>, ProcessarCursos(req[i].linhas))} :
           IF r.res # "ok" \/ ~FormaturaCleanOk(r.cursos)
           THEN /\ req' = Responde(i, "ErroValidacao")
                /\ UNCHANGED <<formaturasDB, proxId>>
           ELSE /\ formaturasDB' = formaturasDB \cup
                       {[id |-> proxId, chave |-> ChaveReq, cursos |-> r.cursos,
                         alocacao_gerada |-> FALSE]}
                /\ proxId' = proxId + 1
                /\ req' = [req EXCEPT
                              ![i].formatura = proxId,
                              ![i].cursos = r.cursos,
                              ![i].pc = IF CapacidadeSuficiente(localP, r.cursos)
                                        THEN "salvar_alocacao"
                                        ELSE "apagar_formatura_nova"]
    /\ UNCHANGED <<localP, cursosDB, alocacoesDB, deleteAceita, pedido, resposta>>
    /\ UNCHANGED <<varsLocal, varsGerar, varsAloc, varsForm, varsLaco, varsDoc,
                   varsStatus>>

\* lines 227-232: the venue is too small, formatura.delete(hard_delete=True)
ApagarFormaturaNova(i) ==
    /\ req[i].pc = "apagar_formatura_nova"
    /\ IF deleteAceita
       THEN /\ formaturasDB' = {f \in formaturasDB : f.id # req[i].formatura}
            /\ req' = Responde(i, "CapacidadeInsuficiente")
       ELSE /\ UNCHANGED formaturasDB
            /\ req' = Responde(i, "ErroInterno")
    /\ UNCHANGED <<localP, cursosDB, alocacoesDB, proxId, deleteAceita, pedido,
                   resposta>>
    /\ UNCHANGED <<varsLocal, varsGerar, varsAloc, varsForm, varsLaco, varsDoc,
                   varsStatus>>

\* lines 235-236: _gerar_alocacao_sequencial(formatura) and alocacao.save(),
\* an insert under the unique index on Alocacao.formatura
GerarESalvarAlocacao(i) ==
    /\ req[i].pc = "salvar_alocacao"
    /\ \E g \in {GerarAlocacaoSequencial(localP, req[i].cursos)} :
       \E sv \in {AlocacaoSave(g.alocacoes)} :
           IF g.res # "ok" \/ sv.res # "ok"
           THEN /\ req' = Responde(i, "ErroValidacao")
                /\ UNCHANGED alocacoesDB
           ELSE IF \E a \in alocacoesDB : a.formatura = req[i].formatura
           THEN /\ req' = Responde(i, "ErroInterno")
                /\ UNCHANGED alocacoesDB
           ELSE /\ alocacoesDB' = alocacoesDB \cup
                       {[formatura |-> req[i].formatura,
                         alocacoes |-> sv.alocacoes]}
                /\ req' = [req EXCEPT ![i].pc = "marcar"]
    /\ UNCHANGED <<localP, cursosDB, formaturasDB, proxId, deleteAceita, pedido,
                   resposta>>
    /\ UNCHANGED <<varsLocal, varsGerar, varsAloc, varsForm, varsLaco, varsDoc,
                   varsStatus>>

\* lines 238-239: marcar_alocacao_gerada() and formatura.save(), an update of
\* the stored document by its id.  When the document is no longer stored the
\* update either writes nothing or, as an upsert, stores a document holding
\* only the changed fields (no nome, data, local or cursos)
MarcarESalvarFormatura(i) ==
    /\ req[i].pc = "marcar"
    /\ IF \E f \in formaturasDB : f.id = req[i].formatura
       THEN formaturasDB' =
                {IF f.id = req[i].formatura
                 THEN [f EXCEPT !.alocacao_gerada = TRUE] ELSE f :
                    f \in formaturasDB}
       ELSE \E recria \in BOOLEAN :
                formaturasDB' =
                    IF recria
                    THEN formaturasDB \cup
                             {[id |-> req[i].formatura, chave |-> "",
                               cursos |-> <<>>, alocacao_gerada |-> TRUE]}
                    ELSE formaturasDB
    /\ req' = Responde(i, "Criada")
    /\ UNCHANGED <<localP, cursosDB, alocacoesDB, proxId, deleteAceita, pedido,
                   resposta>>
    /\ UNCHANGED <<varsLocal, varsGerar, varsAloc, varsForm, varsLaco, varsDoc,
                   varsStatus>>

NextReq ==
    \E i \in Requisicoes :
        \/ BuscarFormaturaExistente(i)
        \/ ResponderJaExistia(i)
        \/ BuscarAlocacaoAntiga(i)
        \/ ApagarAlocacaoAntiga(i)
        \/ ApagarFormaturaExistente(i)
        \/ BuscarOuCriarCursosDoPedido(i)
        \/ SalvarFormaturaNova(i)
        \/ ApagarFormaturaNova(i)
        \/ GerarESalvarAlocacao(i)
        \/ MarcarESalvarFormatura(i)

SpecReq == InitReq /\ [][NextReq]_vars

\* C28: under any interleaving of the two requests the database never holds
\* two active events with the same (name, date, venue), every stored
\* allocation refers to a stored event, and every event flagged
\* alocacao_gerada has exactly one stored allocation.
C28_DuasRequisicoes ==
    /\ \A f, g \in formaturasDB :
          (f.chave = ChaveReq /\ g.chave = ChaveReq) => f.id = g.id
    /\ \A a \in alocacoesDB : \E f \in formaturasDB : f.id = a.formatura
    /\ \A f \in formaturasDB :
          f.alocacao_gerada
              => Cardinality({a \in alocacoesDB : a.formatura = f.id}) = 1

====
